---------------------------- MODULE Spec2Model ----------------------------
(***************************************************************************)
(* A model of the unification-and-resolution core of the Prolog            *)
(* interpreter: terms and unification (builtin.go), the clause compiler    *)
(* (builtin.go / engine/clause.go), the bytecode VM and procedure dispatch *)
(* (vm.go, kept as unnamed/part_000) and the database builtins.            *)
(***************************************************************************)
EXTENDS Integers, Sequences, FiniteSets, TLC

(***************************************************************************)
(* Bounds of the model.                                                    *)
(***************************************************************************)
\* calls of Unify / UnifyWithOccursCheck in one behaviour of SpecUnify
MaxUnifyCalls == 2
\* database operations in one behaviour of SpecDb
MaxDbOps == 3
\* calls of Op in one behaviour of SpecOp
MaxOpCalls == 3
\* calls of SetPrologFlag in one behaviour of SpecFlags
MaxFlagCalls == 2
\* calls of Open, Close and StreamProperty in one behaviour of SpecStreams
MaxStreamCalls == 3
\* solutions of the goal given to bagof and setof
MaxSolutions == 3
\* the greatest position Arg is asked for
MaxNth == 4
\* alternatives in the body of a rule given to the compiler
MaxAlternatives == 3
\* depth to which two terms are unfolded when compared under the bindings
MaxDepth == 3
\* the width of an Integer, int64 in the program, in bits
IntBits == 6
\* the width of the operand of an instruction, a byte, in bits
ByteBits == 8
\* operands of one kind in a clause given to the compiler, beyond those a
\* byte can tell apart
MaxBeyondByte == 2

(***************************************************************************)
(* The state.  The parts are exercised by specifications of their    *)
(* own; the parts a specification does not exercise stay as they start.    *)
(***************************************************************************)
VARIABLES
    \* the unifier: the bindings, the last call and the calls made
    ubind, ulast, ucalls,
    \* the database: the procedure table, the last operation, the operations made
    dprocs, dlast, dops,
    \* the engine: the machine, the Force invocations in progress (innermost
    \* last), the phase of the run, the clauses still to consult, the goal
    \* queried, the outcome of the outermost Force, the last cut and the last promise
    \* Call handed to its caller
    vm, frames, phase, todo, qgoal, outcome, lastCut, lastCall,
    \* the comparison of terms: the last call
    clast,
    \* the operators: the table, the last call of Op and the calls made
    operators, olast, ocalls,
    \* the flags: the fields of the engine state they are kept in, the value
    \* each writable flag was last set to with success, the last call and
    \* the calls made
    fstate, fset, flast, fcalls,
    \* the streams: the registry, the streams made, the last call and the
    \* calls made
    streams, sheap, slast, scalls,
    \* the last call of bagof or setof, of Arg and of the compiler
    blast, alast, klast,
    \* the current input and output streams, and the last call that reads a
    \* byte
    input, output, glast

uvars == <<ubind, ulast, ucalls>>
dvars == <<dprocs, dlast, dops>>
evars == <<vm, frames, phase, todo, qgoal, outcome, lastCut, lastCall>>
ovars == <<operators, olast, ocalls>>
\* the state of the builtins that are called on their own
fvars == <<fstate, fset, flast, fcalls>>
svars == <<streams, sheap, slast, scalls>>
\* what the later sections add
pvars == <<blast, alast, klast>>
ivars == <<input, output, glast>>
xvars == <<svars, pvars, ivars>>
cvars == <<clast, ovars, fvars, xvars>>
vars == <<uvars, dvars, evars, cvars>>

(***************************************************************************)
(* Terms.  Every term is a record of one shape, so that any two terms can  *)
(* be compared: k is the variant, id the variable's identity or the        *)
(* integer's value, name the atom or functor, args the arguments.          *)
(***************************************************************************)
Var(n) == [k |-> "var", id |-> n, name |-> "", args |-> <<>>]
Atom(s) == [k |-> "atom", id |-> 0, name |-> s, args |-> <<>>]
Integer(i) == [k |-> "int", id |-> i, name |-> "", args |-> <<>>]
Compound(f, as) == [k |-> "cmp", id |-> 0, name |-> f, args |-> as]

Nil == Atom("[]")
Cons(h, t) == Compound(".", <<h, t>>)

RECURSIVE List(_)
List(xs) == IF xs = <<>> THEN Nil ELSE Cons(Head(xs), List(Tail(xs)))

\* the bindings: a function from the identities of the bound variables
EmptyEnv == [v \in {} |-> Nil]

Bind(env, v, t) == [w \in DOMAIN env \cup {v.id} |-> IF w = v.id THEN t ELSE env[w]]

RECURSIVE Resolve(_, _)
Resolve(t, env) ==
    IF t.k = "var" /\ t.id \in DOMAIN env THEN Resolve(env[t.id], env) ELSE t

\* whether variable v occurs in t under the bindings
RECURSIVE Contains(_, _, _)
Contains(t, v, env) ==
    LET r == Resolve(t, env)
    IN  CASE r.k = "var" -> r = v
          [] r.k = "cmp" -> \E i \in DOMAIN r.args : Contains(r.args[i], v, env)
          [] OTHER -> FALSE

\* the variables of t that are free under the bindings
RECURSIVE FreeVars(_, _)
FreeVars(t, env) ==
    LET r == Resolve(t, env)
    IN  CASE r.k = "var" -> {r.id}
          [] r.k = "cmp" -> UNION {FreeVars(r.args[i], env) : i \in DOMAIN r.args}
          [] OTHER -> {}

\* whether the bindings reachable from t are free of cycles
RECURSIVE Acyclic(_, _, _)
Acyclic(t, env, seen) ==
    CASE t.k = "var" ->
            IF t.id \in seen THEN FALSE
            ELSE IF t.id \in DOMAIN env THEN Acyclic(env[t.id], env, seen \cup {t.id})
            ELSE TRUE
      [] t.k = "cmp" -> \A i \in DOMAIN t.args : Acyclic(t.args[i], env, seen)
      [] OTHER -> TRUE

AcyclicEnv(env) == \A v \in DOMAIN env : Acyclic(Var(v), env, {})

(***************************************************************************)
(* Term.Unify: Robinson's algorithm.  It binds as it goes and, when a      *)
(* later pair fails, leaves the bindings it has made: undoing them is the  *)
(* caller's job (newAssignment / reset in Unify below).  Without occurs    *)
(* check a binding can close a cycle, and the recursion then meets the     *)
(* pair it is already working on: the call never returns (loop).           *)
(***************************************************************************)
RECURSIVE TermUnifyOn(_, _, _, _, _)
RECURSIVE UnifyArgs(_, _, _, _, _, _)
UnifyArgs(as, bs, i, occursCheck, env, path) ==
    IF i > Len(as) THEN [ok |-> TRUE, env |-> env, loop |-> FALSE]
    ELSE LET rest(r) == IF r.ok THEN UnifyArgs(as, bs, i + 1, occursCheck, r.env, path) ELSE r
         IN  rest(TermUnifyOn(as[i], bs[i], occursCheck, env, path))

TermUnifyOn(t1, t2, occursCheck, env, path) ==
    LET on(a, b) ==
            CASE a.k = "var" ->
                    IF b = a THEN [ok |-> TRUE, env |-> env, loop |-> FALSE]
                    ELSE IF occursCheck /\ Contains(b, a, env)
                    THEN [ok |-> FALSE, env |-> env, loop |-> FALSE]
                    ELSE [ok |-> TRUE, env |-> Bind(env, a, b), loop |-> FALSE]
              [] a.k # "var" /\ b.k = "var" ->
                    IF occursCheck /\ Contains(a, b, env)
                    THEN [ok |-> FALSE, env |-> env, loop |-> FALSE]
                    ELSE [ok |-> TRUE, env |-> Bind(env, b, a), loop |-> FALSE]
              [] a.k = "cmp" /\ b.k = "cmp" ->
                    IF <<a, b, env>> \in path THEN [ok |-> FALSE, env |-> env, loop |-> TRUE]
                    ELSE IF a.name = b.name /\ Len(a.args) = Len(b.args)
                    THEN UnifyArgs(a.args, b.args, 1, occursCheck, env,
                                   path \cup {<<a, b, env>>})
                    ELSE [ok |-> FALSE, env |-> env, loop |-> FALSE]
              [] OTHER -> [ok |-> a = b, env |-> env, loop |-> FALSE]
    IN  on(Resolve(t1, env), Resolve(t2, env))

TermUnify(t1, t2, occursCheck, env) == TermUnifyOn(t1, t2, occursCheck, env, {})

\* newAssignment(ts...): the variables of ts that are free when it is taken
newAssignment(ts, env) == UNION {FreeVars(ts[i], env) : i \in DOMAIN ts}

\* a.reset(): every variable of the assignment is unbound again
reset(a, env) == [v \in DOMAIN env \ a |-> env[v]]

(***************************************************************************)
(* Unify and UnifyWithOccursCheck (builtin.go).  The result is the promise *)
(* (Bool(false), or Delay(k) written "delay") and the bindings left.       *)
(***************************************************************************)
UnifyNoReset(t1, t2, env) ==
    LET r == TermUnify(t1, t2, FALSE, env)
    IN  IF ~r.ok THEN [p |-> "false", env |-> r.env, loop |-> r.loop]
        ELSE [p |-> "delay", env |-> r.env, loop |-> FALSE]

Unify(t1, t2, env) ==
    LET a == newAssignment(<<t1, t2>>, env)
        r == TermUnify(t1, t2, FALSE, env)
    IN  IF ~r.ok THEN [p |-> "false", env |-> reset(a, r.env), loop |-> r.loop]
        ELSE [p |-> "delay", env |-> r.env, loop |-> FALSE]

UnifyWithOccursCheckUnchecked(t1, t2, env) ==
    LET a == newAssignment(<<t1, t2>>, env)
        r == TermUnify(t1, t2, FALSE, env)
    IN  IF ~r.ok THEN [p |-> "false", env |-> reset(a, r.env), loop |-> r.loop]
        ELSE [p |-> "delay", env |-> r.env, loop |-> FALSE]

UnifyWithOccursCheck(t1, t2, env) ==
    LET a == newAssignment(<<t1, t2>>, env)
        r == TermUnify(t1, t2, TRUE, env)
    IN  IF ~r.ok THEN [p |-> "false", env |-> reset(a, r.env), loop |-> r.loop]
        ELSE [p |-> "delay", env |-> r.env, loop |-> FALSE]

(***************************************************************************)
(* The unifier on its own: a caller applies Unify or UnifyWithOccursCheck  *)
(* to terms over two variables, one call after the other on the same       *)
(* bindings.                                                               *)
(***************************************************************************)
X == Var(1)
Y == Var(2)

\* the terms a call is given: on the left and on the right
UTerms1 ==
    {X, Y, Atom("a"), Compound("f", <<X>>),
     Compound("g", <<X, Atom("a")>>), Compound("g", <<X, Y>>), Compound("g", <<Y, X>>)}

UTerms2 ==
    {X, Y, Atom("a"), Atom("b"), Compound("f", <<X>>),
     Compound("g", <<Atom("b"), Atom("b")>>), Compound("g", <<Atom("a"), Atom("b")>>),
     Compound("g", <<Y, Atom("a")>>)}

NoCall == [t1 |-> Nil, t2 |-> Nil, oc |-> FALSE, before |-> EmptyEnv, p |-> "none"]

UInit ==
    /\ ubind = EmptyEnv
    /\ ulast = NoCall
    /\ ucalls = 0

\* a call is a step only if it returns; over bindings that hold a cycle
\* (X = f(X) accepted) the caller makes no further call
CallUnify ==
    /\ ucalls < MaxUnifyCalls
    /\ AcyclicEnv(ubind)
    /\ \E t1 \in UTerms1, t2 \in UTerms2 :
          LET r == Unify(t1, t2, ubind)
          IN  /\ ~r.loop
              /\ ubind' = r.env
              /\ ulast' = [t1 |-> t1, t2 |-> t2, oc |-> FALSE, before |-> ubind, p |-> r.p]
    /\ ucalls' = ucalls + 1
    /\ UNCHANGED <<dvars, evars, cvars>>

CallUnifyWithOccursCheck ==
    /\ ucalls < MaxUnifyCalls
    /\ AcyclicEnv(ubind)
    /\ \E t1 \in UTerms1, t2 \in UTerms2 :
          LET r == UnifyWithOccursCheck(t1, t2, ubind)
          IN  /\ ~r.loop
              /\ ubind' = r.env
              /\ ulast' = [t1 |-> t1, t2 |-> t2, oc |-> TRUE, before |-> ubind, p |-> r.p]
    /\ ucalls' = ucalls + 1
    /\ UNCHANGED <<dvars, evars, cvars>>

UNext == CallUnify \/ CallUnifyWithOccursCheck

\* t unfolded under the bindings to depth d; what lies deeper is cut off
RECURSIVE Unfold(_, _, _)
Unfold(t, env, d) ==
    LET r == Resolve(t, env)
    IN  IF d = 0 THEN Atom("...")
        ELSE IF r.k = "cmp"
        THEN Compound(r.name, [i \in DOMAIN r.args |-> Unfold(r.args[i], env, d - 1)])
        ELSE r

\* C7: when Unify or UnifyWithOccursCheck fails, every variable has the
\* binding state it had before the call.
C7_FailedUnifyRestoresBindings ==
    ulast.p = "false" => ubind = ulast.before

\* a failed call that had bound a variable before it met the failing pair
C7_Witness ==
    /\ ulast.p = "false"
    /\ TermUnify(ulast.t1, ulast.t2, ulast.oc, ulast.before).env # ulast.before
    /\ ulast.before # EmptyEnv

\* C8: when unification succeeds the two terms are structurally equal under
\* the resulting bindings; with occurs check X = f(X) fails, without it
\* succeeds.
C8_UnifySound ==
    /\ ulast.p = "delay" =>
          Unfold(ulast.t1, ubind, MaxDepth) = Unfold(ulast.t2, ubind, MaxDepth)
    /\ (/\ ulast.p # "none"
        /\ Resolve(ulast.t1, ulast.before) = X
        /\ Resolve(ulast.t2, ulast.before) = Compound("f", <<X>>))
       => (ulast.p = "delay") = ~ulast.oc

\* X = f(X) accepted without occurs check: X is bound to a term that holds X
C8_Witness ==
    /\ ulast.p = "delay"
    /\ ~ulast.oc
    /\ ulast.t1 = X
    /\ ulast.t2 = Compound("f", <<X>>)
    /\ ~AcyclicEnv(ubind)

(***************************************************************************)
(* The clause compiler (builtin.go, package engine).  A clause is its      *)
(* procedure indicator pi, the source term raw, the table xrTable of       *)
(* external references, the variables vars and the bytecode.  An operand   *)
(* is an offset from 0, as in the code.                                    *)
(***************************************************************************)
\* a procedure indicator name/arity, as an entry of the xr table
procedureIndicator(name, arity) == [k |-> "pi", id |-> arity, name |-> name, args |-> <<>>]

instruction(opcode, operand) == [opcode |-> opcode, operand |-> operand]

atomIf == ":-"
atomComma == ","
atomCut == "!"
atomCall == "call"

NoClause ==
    [pi |-> procedureIndicator("", 0), raw |-> Nil, xrTable |-> <<>>, vars |-> <<>>,
     bytecode |-> <<>>]

emit(c, opcode, operand) ==
    [c EXCEPT !.bytecode = Append(@, instruction(opcode, operand))]

\* the offset of o in xs, or Len(xs) when it is not there
indexOf(xs, o, i) ==
    LET first(hits) ==
            IF hits = {} THEN Len(xs)
            ELSE (CHOOSE j \in hits : \A k \in hits : j <= k) - 1
    IN  first({j \in i..Len(xs) : xs[j] = o})

\* byte(i): the operand of an instruction is a byte
byte(i) == i % (2 ^ ByteBits)

xrOffset(c, o) ==
    IF \E i \in DOMAIN c.xrTable : c.xrTable[i] = o
    THEN [c |-> c, off |-> byte(indexOf(c.xrTable, o, 1))]
    ELSE [c |-> [c EXCEPT !.xrTable = Append(@, o)], off |-> byte(Len(c.xrTable))]

varOffset(c, o) ==
    IF \E i \in DOMAIN c.vars : c.vars[i] = o
    THEN [c |-> c, off |-> byte(indexOf(c.vars, o, 1))]
    ELSE [c |-> [c EXCEPT !.vars = Append(@, o)], off |-> byte(Len(c.vars))]

RECURSIVE compileArg(_, _)
RECURSIVE compileArgs(_, _, _)
\* the loop over the arguments: c1 is the clause as the i-th argument left
\* it, a value before the next one is compiled
compileArgs(c, as, i) ==
    IF i > Len(as) THEN c
    ELSE CHOOSE r \in {compileArgs(c1, as, i + 1) : c1 \in {compileArg(c, as[i])}} : TRUE

compileArg(c, a) ==
    LET emitAt(opcode, r) == emit(r.c, opcode, r.off)
    IN  CASE a.k = "var" -> emitAt("opVar", varOffset(c, a))
          [] a.k = "cmp" ->
                emit(compileArgs(emitAt("opFunctor",
                                        xrOffset(c, procedureIndicator(a.name, Len(a.args)))),
                                 a.args, 1),
                     "opPop", 0)
          [] OTHER -> emitAt("opConst", xrOffset(c, a))

\* seqIterator: the goals of a body A, B, C in order
RECURSIVE seqIterator(_)
seqIterator(body) ==
    IF body.k = "cmp" /\ body.name = atomComma /\ Len(body.args) = 2
    THEN <<body.args[1]>> \o seqIterator(body.args[2])
    ELSE <<body>>

\* compilePred: the clause with goal p compiled, or err
RECURSIVE compilePred(_, _)
compilePred(c, p) ==
    LET emitCall(r) == [c |-> emit(r.c, "opCall", r.off), err |-> FALSE]
    IN  CASE p.k = "var" -> compilePred(c, Compound(atomCall, <<p>>))
          [] p.k = "atom" ->
                IF p.name = atomCut THEN [c |-> emit(c, "opCut", 0), err |-> FALSE]
                ELSE emitCall(xrOffset(c, procedureIndicator(p.name, 0)))
          [] p.k = "cmp" ->
                emitCall(xrOffset(compileArgs(c, p.args, 1),
                                  procedureIndicator(p.name, Len(p.args))))
          [] OTHER -> [c |-> c, err |-> TRUE]

RECURSIVE compilePreds(_, _, _)
compilePreds(c, ps, i) ==
    IF i > Len(ps) THEN [c |-> c, err |-> FALSE]
    ELSE LET rest(r) == IF r.err THEN r ELSE compilePreds(r.c, ps, i + 1)
         IN  rest(compilePred(c, ps[i]))

compileBody(c, body) == compilePreds(emit(c, "opEnter", 0), seqIterator(body), 1)

\* compileClause(head, body); hasBody is body != nil.  c1 is the clause as
\* the head left it, a value before the body is compiled
compileClause(head, body, hasBody) ==
    LET exit(r) ==
            IF r.err THEN [c |-> r.c, err |-> TRUE]
            ELSE [c |-> emit(r.c, "opExit", 0), err |-> FALSE]
        withBody(c1) == IF hasBody THEN compileBody(c1, body) ELSE [c |-> c1, err |-> FALSE]
        withHead(c0) == IF head.k = "cmp" THEN compileArgs(c0, head.args, 1) ELSE c0
        headed ==
            withHead([NoClause EXCEPT !.pi = procedureIndicator(head.name, Len(head.args))])
    IN  CHOOSE r \in {exit(withBody(c1)) : c1 \in {headed}} : TRUE

\* clause.compile(t): one clause for the fact or rule t, raw set to t
compile(t) ==
    LET isRule == t.k = "cmp" /\ t.name = atomIf /\ Len(t.args) = 2
        withRaw(r) == [c |-> [r.c EXCEPT !.raw = t], err |-> r.err]
    IN  withRaw(compileClause(IF isRule THEN t.args[1] ELSE t,
                              IF isRule THEN t.args[2] ELSE Nil,
                              isRule))

(***************************************************************************)
(* Exceptions (engine: exception.go) and promises.  A promise that has     *)
(* not been put on a Force stack yet is written as its constructor:        *)
(* Bool(v), Error(e), Delay(ks) with ks the thunks.                        *)
(***************************************************************************)
varContext == Var(0)

NewException(kind) == Compound("error", <<kind, varContext>>)

InstantiationError == NewException(Atom("instantiation_error"))

TypeError(validType, culprit) ==
    NewException(Compound("type_error", <<Atom(validType), culprit>>))

ExistenceError(objectType, culprit) ==
    NewException(Compound("existence_error", <<Atom(objectType), culprit>>))

PermissionError(operation, permissionType, culprit) ==
    NewException(Compound("permission_error",
                          <<Atom(operation), Atom(permissionType), culprit>>))

DomainError(validDomain, culprit) ==
    NewException(Compound("domain_error", <<Atom(validDomain), culprit>>))

SystemError(msg) == Compound("error", <<Atom("system_error"), Atom(msg)>>)

\* Name/Arity, the culprit of procedure errors
piTerm(pi) == Compound("/", <<Atom(pi[1]), Integer(pi[2])>>)

existenceErrorProcedure(culprit) == ExistenceError("procedure", culprit)

permissionErrorModifyStaticProcedure(culprit) ==
    PermissionError("modify", "static_procedure", culprit)

Bool(v) == [t |-> "bool", v |-> v]
Error(e) == [t |-> "error", e |-> e]
Delay(ks) == [t |-> "delay", ks |-> ks]

\* the continuations Success and Failure
Success == [t |-> "success"]
Failure == [t |-> "failure"]

(***************************************************************************)
(* The procedure table: a function from the keys <<name, arity>> that have *)
(* an entry to procedures.  A procedure is a clause list (user-defined) or *)
(* a builtin predicate registered by Register0..Register5.                 *)
(***************************************************************************)
clauses(cs) == [kind |-> "clauses", cs |-> cs, name |-> ""]
predicate(name) == [kind |-> "builtin", cs |-> <<>>, name |-> name]

\* the builtins every engine starts with
Builtins ==
    {<<"call", 1>>, <<"assertz", 1>>, <<"asserta", 1>>, <<"retract", 1>>, <<"throw", 1>>,
     <<"catch", 3>>}

NewProcedures == [key \in Builtins |-> predicate(key[1])]

SetProcedure(procedures, key, p) ==
    [q \in DOMAIN procedures \cup {key} |-> IF q = key THEN p ELSE procedures[q]]

DeleteProcedure(procedures, key) ==
    [q \in DOMAIN procedures \ {key} |-> procedures[q]]

\* piArgs(t): the procedure indicator of a callable term and its arguments
piArgs(t, env) ==
    LET f == Resolve(t, env)
    IN  CASE f.k = "var" -> [err |-> TRUE, e |-> InstantiationError, pi |-> <<"", 0>>, args |-> Nil]
          [] f.k = "atom" -> [err |-> FALSE, e |-> Nil, pi |-> <<f.name, 0>>, args |-> Nil]
          [] f.k = "cmp" ->
                [err |-> FALSE, e |-> Nil, pi |-> <<f.name, Len(f.args)>>, args |-> List(f.args)]
          [] OTHER -> [err |-> TRUE, e |-> TypeError("callable", t), pi |-> <<"", 0>>, args |-> Nil]

\* Rulify(t): t as a rule, H :- true for a fact H
Rulify(t) ==
    IF t.k = "cmp" /\ t.name = atomIf /\ Len(t.args) = 2 THEN t
    ELSE Compound(atomIf, <<t, Atom("true")>>)

(***************************************************************************)
(* assert (builtin.go): Assertz and Asserta hand it their merge.  The      *)
(* result is the table afterwards and the promise returned.                *)
(***************************************************************************)
\* the two functions handed to assert as merge, and their application
mergeAppend == "append(cs, c)"
mergePrepend == "append(clauses{c}, cs...)"

applyMerge(merge, cs, c) == IF merge = mergePrepend THEN <<c>> \o cs ELSE Append(cs, c)

assert(procedures, t, k, env, merge) ==
    LET result(p) == [procedures |-> procedures, p |-> p]
        add(pi, p, c) ==
            IF p.kind # "clauses"
            THEN result(Error(permissionErrorModifyStaticProcedure(piTerm(pi))))
            ELSE IF c.err THEN result(Error(TypeError("callable", t)))
            ELSE [procedures |-> SetProcedure(procedures, pi, clauses(applyMerge(merge, p.cs, c.c))),
                  p |-> Delay(<<[t |-> "k", k |-> k, env |-> env]>>)]
        lookup(pi) ==
            add(pi,
                IF pi \in DOMAIN procedures THEN procedures[pi] ELSE clauses(<<>>),
                compile(t))
        directive(ha) ==
            IF ha.err THEN result(Error(ha.e))
            ELSE result(Delay(<<[t |-> "arrive", pi |-> ha.pi, args |-> ha.args,
                                 k |-> k, env |-> env]>>))
        rule(ha) == IF ha.err THEN result(Error(ha.e)) ELSE lookup(ha.pi)
        switch(pa) ==
            CASE pa.err -> result(Error(pa.e))
              [] ~pa.err /\ pa.pi = <<atomIf, 1>> -> directive(piArgs(pa.args.args[1], env))
              [] ~pa.err /\ pa.pi = <<atomIf, 2>> -> rule(piArgs(pa.args.args[1], env))
              [] OTHER -> lookup(pa.pi)
    IN  switch(piArgs(t, env))

\* Assertz taking a directive :- G for a clause of ':-'/1
AssertzStoringDirective(procedures, t, k, env) ==
    IF t.k = "cmp" /\ t.name = atomIf /\ Len(t.args) = 1
    THEN [procedures |->
             SetProcedure(procedures, <<atomIf, 1>>,
                          clauses(applyMerge(mergeAppend,
                                             IF <<atomIf, 1>> \in DOMAIN procedures
                                             THEN procedures[<<atomIf, 1>>].cs ELSE <<>>,
                                             compile(t).c))),
          p |-> Delay(<<[t |-> "k", k |-> k, env |-> env]>>)]
    ELSE assert(procedures, t, k, env, mergeAppend)

Assertz(procedures, t, k, env) == assert(procedures, t, k, env, mergeAppend)

AssertaAppending(procedures, t, k, env) == assert(procedures, t, k, env, mergeAppend)

Asserta(procedures, t, k, env) == assert(procedures, t, k, env, mergePrepend)

(***************************************************************************)
(* Retract (builtin.go).  The continuation is forced inside the loop, once *)
(* for every clause that unifies until one forcing succeeds or returns an  *)
(* error: outs[j] is the outcome of the j-th forcing ("true", "false" or   *)
(* "error"), and tried lists the places of the clauses it was forced on.   *)
(* The deferred assignment stores updated on every path that has passed    *)
(* the permission check.                                                   *)
(***************************************************************************)
RECURSIVE retractLoop(_, _, _, _, _, _)
retractLoop(cs, t, i, updated, outs, j) ==
    IF i > Len(cs)
    THEN [updated |-> updated, p |-> Bool(FALSE), kcalls |-> j - 1, tried |-> <<>>]
    ELSE LET raw == Rulify(cs[i].raw)
             u == TermUnify(t, raw, FALSE, EmptyEnv)
             after(r) == [r EXCEPT !.tried = <<i>> \o @]
         IN  IF ~u.ok THEN retractLoop(cs, t, i + 1, Append(updated, cs[i]), outs, j)
             ELSE CASE outs[j] = "error" ->
                          [updated |-> updated \o SubSeq(cs, i + 1, Len(cs)),
                           p |-> Error(Atom("k")), kcalls |-> j, tried |-> <<i>>]
                    [] outs[j] = "true" ->
                          [updated |-> updated \o SubSeq(cs, i + 1, Len(cs)),
                           p |-> Bool(TRUE), kcalls |-> j, tried |-> <<i>>]
                    [] OTHER -> after(retractLoop(cs, t, i + 1, updated, outs, j + 1))

\* the places of the clauses of cs that unify with t, in the order of cs
Matching(cs, t) ==
    LET unifies(i) == TermUnify(Rulify(t), Rulify(cs[i].raw), FALSE, EmptyEnv).ok
    IN  SelectSeq([i \in 1..Len(cs) |-> i], unifies)

\* cs without the clauses at the places in gone
Without(cs, gone) ==
    LET stays(i) == i \notin gone
        at(kept) == [n \in DOMAIN kept |-> cs[kept[n]]]
    IN  at(SelectSeq([i \in 1..Len(cs) |-> i], stays))

\* Retract putting back the clauses whose continuation failed: only the
\* clause on which the continuation succeeded or raised leaves the list
RetractKeepingFailed(procedures, t0, outs) ==
    LET scan(cs, pi, m) ==
            LET ended == {j \in DOMAIN m : outs[j] # "false"}
                first(j) ==
                    [procedures |-> SetProcedure(procedures, pi, clauses(Without(cs, {m[j]}))),
                     p |-> IF outs[j] = "true" THEN Bool(TRUE) ELSE Error(Atom("k")),
                     kcalls |-> j, tried |-> SubSeq(m, 1, j)]
            IN  IF ended = {}
                THEN [procedures |-> procedures, p |-> Bool(FALSE), kcalls |-> Len(m),
                      tried |-> m]
                ELSE first(CHOOSE j \in ended : \A o \in ended : j <= o)
        on(t, pa) ==
            CASE pa.err ->
                    [procedures |-> procedures, p |-> Error(pa.e), kcalls |-> 0,
                     tried |-> <<>>]
              [] ~pa.err /\ pa.pi \notin DOMAIN procedures ->
                    [procedures |-> procedures, p |-> Bool(FALSE), kcalls |-> 0,
                     tried |-> <<>>]
              [] OTHER ->
                    IF procedures[pa.pi].kind # "clauses"
                    THEN [procedures |-> procedures,
                          p |-> Error(permissionErrorModifyStaticProcedure(piTerm(pa.pi))),
                          kcalls |-> 0, tried |-> <<>>]
                    ELSE scan(procedures[pa.pi].cs, pa.pi,
                              Matching(procedures[pa.pi].cs, t))
    IN  on(Rulify(t0), piArgs(Rulify(t0).args[1], EmptyEnv))

\* Retract returning the error of the continuation without putting the
\* clauses after the current one into updated
RetractErrorDropsRest(procedures, t0, outs) ==
    LET scan(cs, pi, m) ==
            LET ended == {j \in DOMAIN m : outs[j] # "false"}
                first(j) ==
                    [procedures |->
                        SetProcedure(procedures, pi,
                                     clauses(Without(cs, {m[o] : o \in 1..j} \cup
                                                         IF outs[j] = "error"
                                                         THEN {i \in DOMAIN cs : i > m[j]}
                                                         ELSE {}))),
                     p |-> IF outs[j] = "true" THEN Bool(TRUE) ELSE Error(Atom("k")),
                     kcalls |-> j, tried |-> SubSeq(m, 1, j)]
            IN  IF ended = {}
                THEN [procedures |->
                         SetProcedure(procedures, pi,
                                      clauses(Without(cs, {m[o] : o \in DOMAIN m}))),
                      p |-> Bool(FALSE), kcalls |-> Len(m), tried |-> m]
                ELSE first(CHOOSE j \in ended : \A o \in ended : j <= o)
        on(t, pa) ==
            CASE pa.err ->
                    [procedures |-> procedures, p |-> Error(pa.e), kcalls |-> 0,
                     tried |-> <<>>]
              [] ~pa.err /\ pa.pi \notin DOMAIN procedures ->
                    [procedures |-> procedures, p |-> Bool(FALSE), kcalls |-> 0,
                     tried |-> <<>>]
              [] OTHER ->
                    IF procedures[pa.pi].kind # "clauses"
                    THEN [procedures |-> procedures,
                          p |-> Error(permissionErrorModifyStaticProcedure(piTerm(pa.pi))),
                          kcalls |-> 0, tried |-> <<>>]
                    ELSE scan(procedures[pa.pi].cs, pa.pi,
                              Matching(procedures[pa.pi].cs, t))
    IN  on(Rulify(t0), piArgs(Rulify(t0).args[1], EmptyEnv))

\* Retract failing as soon as the continuation has failed on a clause,
\* without going on to the clauses after it
RetractOnce(procedures, t0, outs) ==
    LET scan(cs, pi, m) ==
            IF m = <<>>
            THEN [procedures |-> procedures, p |-> Bool(FALSE), kcalls |-> 0, tried |-> <<>>]
            ELSE [procedures |-> SetProcedure(procedures, pi, clauses(Without(cs, {m[1]}))),
                  p |-> CASE outs[1] = "true" -> Bool(TRUE)
                          [] outs[1] = "error" -> Error(Atom("k"))
                          [] OTHER -> Bool(FALSE),
                  kcalls |-> 1, tried |-> <<m[1]>>]
        on(t, pa) ==
            CASE pa.err ->
                    [procedures |-> procedures, p |-> Error(pa.e), kcalls |-> 0,
                     tried |-> <<>>]
              [] ~pa.err /\ pa.pi \notin DOMAIN procedures ->
                    [procedures |-> procedures, p |-> Bool(FALSE), kcalls |-> 0,
                     tried |-> <<>>]
              [] OTHER ->
                    IF procedures[pa.pi].kind # "clauses"
                    THEN [procedures |-> procedures,
                          p |-> Error(permissionErrorModifyStaticProcedure(piTerm(pa.pi))),
                          kcalls |-> 0, tried |-> <<>>]
                    ELSE scan(procedures[pa.pi].cs, pa.pi,
                              Matching(procedures[pa.pi].cs, t))
    IN  on(Rulify(t0), piArgs(Rulify(t0).args[1], EmptyEnv))

Retract(procedures, t0, outs) ==
    LET t == Rulify(t0)
        pa == piArgs(t.args[1], EmptyEnv)
        pi == pa.pi
    IN  CASE pa.err ->
                [procedures |-> procedures, p |-> Error(pa.e), kcalls |-> 0, tried |-> <<>>]
          [] ~pa.err /\ pi \notin DOMAIN procedures ->
                [procedures |-> procedures, p |-> Bool(FALSE), kcalls |-> 0, tried |-> <<>>]
          [] OTHER ->
                IF procedures[pi].kind # "clauses"
                THEN [procedures |-> procedures,
                      p |-> Error(permissionErrorModifyStaticProcedure(piTerm(pi))),
                      kcalls |-> 0, tried |-> <<>>]
                ELSE LET r == retractLoop(procedures[pi].cs, t, 1, <<>>, outs, 1)
                     IN  [procedures |-> SetProcedure(procedures, pi, clauses(r.updated)),
                          p |-> r.p, kcalls |-> r.kcalls, tried |-> r.tried]

(***************************************************************************)
(* Abolish (builtin.go).                                                   *)
(***************************************************************************)
AbolishUnchecked(procedures, pi0, k, env) ==
    LET pi == Resolve(pi0, env)
        key == <<Resolve(pi.args[1], env).name, Resolve(pi.args[2], env).id>>
    IN  IF pi.k = "cmp" /\ pi.name = "/" /\ Len(pi.args) = 2 /\ key \in DOMAIN procedures
        THEN [procedures |-> DeleteProcedure(procedures, key),
              p |-> Delay(<<[t |-> "k", k |-> k, env |-> env]>>)]
        ELSE [procedures |-> procedures, p |-> Error(InstantiationError)]

\* Abolish leaving the entry in the table, with no clauses
AbolishEmptying(procedures, pi0, k, env) ==
    LET pi == Resolve(pi0, env)
        key == <<Resolve(pi.args[1], env).name, Resolve(pi.args[2], env).id>>
    IN  IF /\ pi.k = "cmp" /\ pi.name = "/" /\ Len(pi.args) = 2
           /\ Resolve(pi.args[1], env).k = "atom" /\ Resolve(pi.args[2], env).k = "int"
           /\ key \in DOMAIN procedures
        THEN IF procedures[key].kind = "clauses"
             THEN [procedures |-> SetProcedure(procedures, key, clauses(<<>>)),
                   p |-> Delay(<<[t |-> "k", k |-> k, env |-> env]>>)]
             ELSE [procedures |-> procedures,
                   p |-> Error(permissionErrorModifyStaticProcedure(piTerm(key)))]
        ELSE [procedures |-> procedures, p |-> Error(InstantiationError)]

Abolish(procedures, pi0, k, env) ==
    LET pi == Resolve(pi0, env)
        wellFormed == pi.k = "cmp" /\ pi.name = "/" /\ Len(pi.args) = 2
        name == Resolve(pi.args[1], env)
        arity == Resolve(pi.args[2], env)
        key == <<name.name, arity.id>>
        isClauses == key \in DOMAIN procedures /\ procedures[key].kind = "clauses"
        err(e) == [procedures |-> procedures, p |-> Error(e)]
    IN  CASE pi.k = "var" -> err(InstantiationError)
          [] pi.k # "var" /\ ~wellFormed -> err(TypeError("predicate_indicator", pi0))
          [] OTHER ->
                CASE name.k = "var" -> err(InstantiationError)
                  [] name.k \notin {"var", "atom"} -> err(TypeError("atom", pi.args[1]))
                  [] name.k = "atom" /\ arity.k = "var" -> err(InstantiationError)
                  [] name.k = "atom" /\ arity.k \notin {"var", "int"} ->
                        err(TypeError("integer", pi.args[2]))
                  [] name.k = "atom" /\ arity.k = "int" /\ arity.id < 0 ->
                        err(DomainError("not_less_than_zero", pi.args[2]))
                  [] OTHER ->
                        IF ~isClauses
                        THEN err(permissionErrorModifyStaticProcedure(piTerm(key)))
                        ELSE [procedures |-> DeleteProcedure(procedures, key),
                              p |-> Delay(<<[t |-> "k", k |-> k, env |-> env]>>)]

(***************************************************************************)
(* The database on its own: an embedder applies Assertz, Asserta, Retract  *)
(* and Abolish to an engine that holds the builtins, each with the         *)
(* continuation Success.                                                   *)
(***************************************************************************)
Z == Var(5)

P(t) == Compound("p", <<t>>)
Q(t) == Compound("q", <<t>>)
Rule(h, b) == Compound(atomIf, <<h, b>>)

\* the terms given to Assertz and Asserta
DbClauses ==
    {P(Integer(1)), P(Integer(2)), Q(Integer(1)), Rule(P(X), Q(X)),
     Compound("call", <<Integer(1)>>), Rule(Compound("call", <<X>>), Q(X)),
     Compound(atomIf, <<Q(Integer(1))>>), Z, Integer(7)}

\* the terms given to Retract
DbRetracts ==
    {P(Z), P(Integer(2)), Q(Z), Rule(P(Z), Q(Z)), Compound("call", <<Z>>),
     Compound("r", <<Z>>)}

\* the indicators given to Abolish
DbIndicators ==
    {piTerm(<<"p", 1>>), piTerm(<<"q", 1>>), piTerm(<<"call", 1>>), piTerm(<<"r", 1>>),
     Z, Atom("p"), Compound("/", <<Atom("p"), Integer(-1)>>)}

KOutcomes == {"true", "false", "error"}

NoOp ==
    [op |-> "none", arg |-> Nil, before |-> NewProcedures, p |-> Bool(FALSE), kcalls |-> 0]

DbInit ==
    /\ dprocs = NewProcedures
    /\ dlast = NoOp
    /\ dops = 0

DbAssertz ==
    /\ dops < MaxDbOps
    /\ \E t \in DbClauses :
          LET r == Assertz(dprocs, t, Success, EmptyEnv)
          IN  /\ dprocs' = r.procedures
              /\ dlast' = [op |-> "assertz", arg |-> t, before |-> dprocs, p |-> r.p,
                           kcalls |-> 0]
    /\ dops' = dops + 1
    /\ UNCHANGED <<uvars, evars, cvars>>

DbAsserta ==
    /\ dops < MaxDbOps
    /\ \E t \in DbClauses :
          LET r == Asserta(dprocs, t, Success, EmptyEnv)
          IN  /\ dprocs' = r.procedures
              /\ dlast' = [op |-> "asserta", arg |-> t, before |-> dprocs, p |-> r.p,
                           kcalls |-> 0]
    /\ dops' = dops + 1
    /\ UNCHANGED <<uvars, evars, cvars>>

DbRetract ==
    /\ dops < MaxDbOps
    /\ \E t \in DbRetracts, outs \in [1..MaxDbOps -> KOutcomes] :
          LET r == Retract(dprocs, t, outs)
          IN  /\ dprocs' = r.procedures
              /\ dlast' = [op |-> "retract", arg |-> t, before |-> dprocs, p |-> r.p,
                           kcalls |-> r.kcalls, tried |-> r.tried,
                           outs |-> SubSeq(outs, 1, r.kcalls)]
    /\ dops' = dops + 1
    /\ UNCHANGED <<uvars, evars, cvars>>

DbAbolish ==
    /\ dops < MaxDbOps
    /\ \E pi \in DbIndicators :
          LET r == Abolish(dprocs, pi, Success, EmptyEnv)
          IN  /\ dprocs' = r.procedures
              /\ dlast' = [op |-> "abolish", arg |-> pi, before |-> dprocs, p |-> r.p,
                           kcalls |-> 0]
    /\ dops' = dops + 1
    /\ UNCHANGED <<uvars, evars, cvars>>

DbNext == DbAssertz \/ DbAsserta \/ DbRetract \/ DbAbolish

\* the key <<name, arity>> of the procedure a clause term, or the argument of
\* Retract or Abolish, is about; <<"", -1>> when it names none
TargetKey(op, arg) ==
    LET h == IF arg.k = "cmp" /\ arg.name = atomIf /\ Len(arg.args) = 2
             THEN arg.args[1] ELSE arg
    IN  CASE op = "abolish" ->
                IF /\ arg.k = "cmp" /\ arg.name = "/" /\ Len(arg.args) = 2
                   /\ arg.args[1].k = "atom" /\ arg.args[2].k = "int"
                THEN <<arg.args[1].name, arg.args[2].id>> ELSE <<"", -1>>
          [] op # "abolish" /\ h.k = "atom" -> <<h.name, 0>>
          [] op # "abolish" /\ h.k = "cmp" -> <<h.name, Len(h.args)>>
          [] OTHER -> <<"", -1>>

ClausesOf(procedures, key) ==
    IF key \in DOMAIN procedures THEN procedures[key].cs ELSE <<>>

AssertSucceeded ==
    /\ dlast.op \in {"assertz", "asserta"}
    /\ dlast.p.t = "delay"
    /\ dlast.p.ks[1].t = "k"

\* C9: after assertz(C) succeeds C is the last clause of its procedure, after
\* asserta(C) the first; the clauses that existed keep their order and every
\* other procedure is unchanged.
C9_AssertPlacesClause ==
    AssertSucceeded =>
        LET key == TargetKey(dlast.op, dlast.arg)
            old == ClausesOf(dlast.before, key)
            new == ClausesOf(dprocs, key)
        IN  /\ Len(new) = Len(old) + 1
            /\ dlast.op = "assertz" =>
                  /\ new[Len(new)].raw = dlast.arg
                  /\ SubSeq(new, 1, Len(old)) = old
            /\ dlast.op = "asserta" =>
                  /\ new[1].raw = dlast.arg
                  /\ SubSeq(new, 2, Len(new)) = old
            /\ DOMAIN dprocs = DOMAIN dlast.before \cup {key}
            /\ \A q \in DOMAIN dlast.before \ {key} : dprocs[q] = dlast.before[q]

\* asserta in front of two clauses, with another user-defined procedure present
C9_Witness ==
    /\ AssertSucceeded
    /\ dlast.op = "asserta"
    /\ Len(ClausesOf(dlast.before, TargetKey(dlast.op, dlast.arg))) >= 1
    /\ ClausesOf(dlast.before, TargetKey(dlast.op, dlast.arg))[1].raw # dlast.arg
    /\ \E q \in DOMAIN dlast.before \ {TargetKey(dlast.op, dlast.arg)} :
          dlast.before[q].kind = "clauses"

\* the last operation was applied to a procedure that exists and is not a
\* clause list
OnStatic ==
    /\ dlast.op # "none"
    /\ TargetKey(dlast.op, dlast.arg) \in DOMAIN dlast.before
    /\ dlast.before[TargetKey(dlast.op, dlast.arg)].kind # "clauses"

\* C10: assert, retract and abolish applied to a procedure that exists and
\* is not a clause list return permission_error(modify, static_procedure,
\* Name/Arity), do not invoke the continuation and leave the table unchanged.
C10_StaticProcedureRefusesChange ==
    OnStatic =>
        /\ dlast.p = Error(PermissionError("modify", "static_procedure",
                                           piTerm(TargetKey(dlast.op, dlast.arg))))
        /\ dlast.kcalls = 0
        /\ dprocs = dlast.before

\* abolish of a builtin on a table that also holds user-defined clauses
C10_Witness ==
    /\ OnStatic
    /\ dlast.op = "abolish"
    /\ \E q \in DOMAIN dlast.before : dlast.before[q].kind = "clauses"

(***************************************************************************)
(* The engine.  A machine m is the part of the VM that the code of a       *)
(* thunk can read and write: the procedure table, the flags, the calls of  *)
(* the UnknownWarning callback, the counters behind NewVariable and behind *)
(* the identity of promises, and the solutions handed to the consumer.     *)
(* The rest of m observes the run: origins (the clause every solution      *)
(* comes from), acts (the variables of every clause activation), bound     *)
(* (the variables bound in an environment handed to a continuation),       *)
(* kcalls (the continuations invoked), lastUnknown (the last arrival at a  *)
(* procedure without entry), diverged (a unification that does not         *)
(* return).                                                                *)
(***************************************************************************)
\* the identity of the first variable NewVariable hands out
firstVariable == 100

NoUnknown ==
    [pi |-> <<"", 0>>, unknown |-> "", p |-> Bool(FALSE), kcalls |-> 0, warnings |-> <<>>,
     unchanged |-> TRUE]

\* what the last return of Catch was, noted in lastCatch
NoCatch ==
    [set |-> FALSE, ca |-> [catcher |-> Atom("nil"), recover |-> Atom("nil")], ok |-> FALSE,
     err |-> Atom("nil"), p |-> Bool(FALSE)]

NewMachine ==
    [procedures |-> NewProcedures, unknown |-> "error", debug |-> FALSE,
     charConvEnabled |-> FALSE, warnings |-> <<>>, nv |-> firstVariable, np |-> 1,
     solutions |-> <<>>, origins |-> <<>>, acts |-> <<>>, bound |-> {}, kcalls |-> 0,
     lastUnknown |-> NoUnknown, lastCatch |-> NoCatch, diverged |-> FALSE]

\* a promise that is not settled and has no error
NoErr == Atom("nil")

\* Delay(ks...) of clauses.call: the promise whose identity the thunks hold
DelayAt(id, ks) == [t |-> "delay", ks |-> ks, id |-> id]

\* nondet.Cut(p, parent)
Cut(p, parent) == [t |-> "cut", inner |-> p, parent |-> parent]

\* p.Force() asked for inside a thunk: the thunk goes on when it returns
Forced(p) == [t |-> "force", inner |-> p]

\* k().Force() asked for inside the loop of Retract, which is at lp
ForcedInLoop(p, lp) == [t |-> "force", inner |-> p, lp |-> lp]

\* Call(goal, k).Force() asked for by Catch, which goes on at ca
ForcedInCatch(p, ca) == [t |-> "force", inner |-> p, ca |-> ca]

\* NewPromise(ok, err): the promise settled with the result of a Force
NewPromise(ok, err) == IF err # NoErr THEN Error(err) ELSE Bool(ok)

\* the promise p as the Force loop holds it, under the identity id
Promise(id, p) ==
    CASE p.t = "bool" ->
            [id |-> id, delayed |-> <<>>, cutParent |-> 0, ok |-> p.v, err |-> NoErr]
      [] p.t = "error" ->
            [id |-> id, delayed |-> <<>>, cutParent |-> 0, ok |-> FALSE, err |-> p.e]
      [] p.t = "delay" ->
            [id |-> id, delayed |-> p.ks, cutParent |-> 0, ok |-> FALSE, err |-> NoErr]
      [] p.t = "cut" ->
            [id |-> id, delayed |-> <<[t |-> "ret", p |-> p.inner]>>,
             cutParent |-> p.parent, ok |-> FALSE, err |-> NoErr]

\* the identity p enters the Force loop under: its own when it was given
\* one at construction, a new one otherwise
IdOf(m, p) == IF "id" \in DOMAIN p THEN p.id ELSE m.np

\* the results of one instruction: go on with the next, r.fail, r.exit, or
\* return the promise p
next(m, r) == [st |-> "next", m |-> m, r |-> r, p |-> Bool(FALSE)]
fail(m, r) == [st |-> "fail", m |-> m, r |-> r, p |-> Bool(FALSE)]
exit(m, r) == [st |-> "exit", m |-> m, r |-> r, p |-> Bool(FALSE)]
return(m, r, p) == [st |-> "return", m |-> m, r |-> r, p |-> p]

\* the key of the procedure table for an entry pi of an xr table
KeyOf(pi) == <<pi.name, pi.id>>

\* m after n calls of NewVariable, and after a unification
Allocated(m, n) == [m EXCEPT !.nv = @ + n]
Unified(m, u) == [m EXCEPT !.diverged = @ \/ u.loop]

execVoid(m, r) == next(m, [r EXCEPT !.pc = Tail(@)])

\* execConst and execVar: args = [x | arest]
execMatch(m, r, x) ==
    LET arest == Var(m.nv)
        matched(u) ==
            IF ~u.ok THEN fail(Unified(Allocated(m, 1), u), [r EXCEPT !.env = u.env])
            ELSE next(Unified(Allocated(m, 1), u),
                      [r EXCEPT !.pc = Tail(@), !.args = arest, !.env = u.env])
    IN  matched(TermUnify(r.args, Cons(x, arest), FALSE, r.env))

\* execConst going on with the next instruction when args does not unify
execConstPastMismatch(m, r) ==
    LET arest == Var(m.nv)
        matched(u) ==
            next(Unified(Allocated(m, 1), u),
                 [r EXCEPT !.pc = Tail(@), !.args = arest,
                           !.env = IF u.ok THEN u.env ELSE r.env])
    IN  matched(TermUnify(r.args, Cons(r.xr[r.pc[1].operand + 1], arest), FALSE, r.env))

execConst(m, r) == execMatch(m, r, r.xr[r.pc[1].operand + 1])

execVar(m, r) == execMatch(m, r, r.vars[r.pc[1].operand + 1])

\* Functor(arg, pf.name, pf.arity, k) forced by execFunctor: the unification
\* it comes down to; vs are the variables it makes for an unbound arg
functorUnify(arg, pf, vs, env) ==
    LET pattern(name, arity) == Compound("", <<name, arity>>)
        on(t) ==
            CASE t.k = "var" ->
                    IF pf.id = 0 THEN TermUnify(t, Atom(pf.name), FALSE, env)
                    ELSE TermUnify(t, Compound(pf.name, vs), FALSE, env)
              [] t.k = "cmp" ->
                    TermUnify(pattern(Atom(pf.name), Integer(pf.id)),
                              pattern(Atom(t.name), Integer(Len(t.args))), FALSE, env)
              [] OTHER ->
                    TermUnify(pattern(Atom(pf.name), Integer(pf.id)),
                              pattern(t, Integer(0)), FALSE, env)
    IN  on(Resolve(arg, env))

\* Univ(arg, list, k) forced by execFunctor, arg being bound by now
univUnify(arg, list, env) ==
    LET on(t) ==
            IF t.k = "cmp" THEN TermUnify(list, List(<<Atom(t.name)>> \o t.args), FALSE, env)
            ELSE TermUnify(list, List(<<t>>), FALSE, env)
    IN  on(Resolve(arg, env))

execFunctor(m, r) ==
    LET x == r.xr[r.pc[1].operand + 1]
        arg == Var(m.nv)
        arest == Var(m.nv + 1)
        args == Var(m.nv + 2)
        vs == [i \in 1..(IF x.k = "pi" THEN x.id ELSE 0) |-> Var(m.nv + 2 + i)]
        m1 == Allocated(m, 3 + Len(vs))
        univ(u) ==
            IF ~u.ok
            THEN fail(Unified(m1, u), [r EXCEPT !.pc = Tail(@), !.args = args, !.env = u.env])
            ELSE next(m1, [r EXCEPT !.pc = Tail(@), !.args = args,
                                    !.astack = Cons(arest, @), !.env = u.env])
        functor(u) ==
            IF ~u.ok THEN fail(Unified(m1, u), [r EXCEPT !.env = u.env])
            ELSE IF Resolve(arg, u.env).k = "var"
            THEN return(m1, r, Error(InstantiationError))
            ELSE univ(univUnify(arg, Cons(Atom(x.name), args), u.env))
        consed(u) ==
            IF ~u.ok THEN fail(Unified(m1, u), [r EXCEPT !.env = u.env])
            ELSE IF x.k # "pi" THEN return(m1, r, Error(Atom("not a principal functor")))
            ELSE functor(functorUnify(arg, x, vs, u.env))
    IN  consed(TermUnify(r.args, Cons(arg, arest), FALSE, r.env))

execPop(m, r) ==
    LET a == Var(m.nv)
        arest == Var(m.nv + 1)
        popped(u) ==
            IF ~u.ok THEN fail(Unified(Allocated(m, 2), u), [r EXCEPT !.env = u.env])
            ELSE next(Allocated(m, 2),
                      [r EXCEPT !.pc = Tail(@), !.args = a, !.astack = arest, !.env = u.env])
        closed(u) ==
            IF ~u.ok THEN fail(Unified(m, u), [r EXCEPT !.env = u.env])
            ELSE popped(TermUnify(r.astack, Cons(a, arest), FALSE, u.env))
    IN  closed(TermUnify(r.args, Nil, FALSE, r.env))

execEnter(m, r) ==
    LET v == Var(m.nv)
        emptied(u) ==
            IF ~u.ok THEN fail(Unified(m, u), [r EXCEPT !.env = u.env])
            ELSE next(Allocated(m, 1),
                      [r EXCEPT !.pc = Tail(@), !.args = v, !.astack = v, !.env = u.env])
        closed(u) ==
            IF ~u.ok THEN fail(Unified(m, u), [r EXCEPT !.env = u.env])
            ELSE emptied(TermUnify(r.astack, Nil, FALSE, u.env))
    IN  closed(TermUnify(r.args, Nil, FALSE, r.env))

\* the continuation execCall hands to arrive: the rest of the clause
Resume(r) == [t |-> "resume", r |-> r]

\* execCall going on behind the instruction after the opCall
execCallSkippingNext(m, r) ==
    LET x == r.xr[r.pc[1].operand + 1]
        rest == IF Len(r.pc) > 1 THEN Tail(Tail(r.pc)) ELSE Tail(r.pc)
        delayed(r1) ==
            return(m, r1, Delay(<<[t |-> "arrive", pi |-> KeyOf(x), args |-> r1.astack,
                                   k |-> Resume(r1), env |-> r1.env]>>))
        closed(u) ==
            IF ~u.ok THEN fail(Unified(m, u), [r EXCEPT !.env = u.env])
            ELSE IF x.k # "pi"
            THEN return(m, [r EXCEPT !.pc = rest, !.env = u.env],
                        Error(Atom("not a principal functor")))
            ELSE delayed([r EXCEPT !.pc = rest, !.env = u.env])
    IN  closed(TermUnify(r.args, Nil, FALSE, r.env))

execCall(m, r) ==
    LET x == r.xr[r.pc[1].operand + 1]
        delayed(r1) ==
            return(m, r1, Delay(<<[t |-> "arrive", pi |-> KeyOf(x), args |-> r1.astack,
                                   k |-> Resume(r1), env |-> r1.env]>>))
        closed(u) ==
            IF ~u.ok THEN fail(Unified(m, u), [r EXCEPT !.env = u.env])
            ELSE IF x.k # "pi"
            THEN return(m, [r EXCEPT !.pc = Tail(@), !.env = u.env],
                        Error(Atom("not a principal functor")))
            ELSE delayed([r EXCEPT !.pc = Tail(@), !.env = u.env])
    IN  closed(TermUnify(r.args, Nil, FALSE, r.env))

execExit(m, r) == exit(m, r)

\* execCut without the barrier: the rest of the clause as an ordinary Delay
execCutNoBarrier(m, r) ==
    return(m, [r EXCEPT !.pc = Tail(@)], Delay(<<[t |-> "exec", r |-> [r EXCEPT !.pc = Tail(@)]]>>))

execCut(m, r) ==
    return(m, [r EXCEPT !.pc = Tail(@)],
           Cut(Delay(<<[t |-> "exec", r |-> [r EXCEPT !.pc = Tail(@)]]>>), r.cutParent))

\* one instruction: the jump table of exec
\* exec going past an instruction that has no handler
execOpSkippingUnknown(m, r) ==
    CASE r.pc[1].opcode = "opVoid" -> execVoid(m, r)
      [] r.pc[1].opcode = "opConst" -> execConst(m, r)
      [] r.pc[1].opcode = "opVar" -> execVar(m, r)
      [] r.pc[1].opcode = "opFunctor" -> execFunctor(m, r)
      [] r.pc[1].opcode = "opPop" -> execPop(m, r)
      [] r.pc[1].opcode = "opEnter" -> execEnter(m, r)
      [] r.pc[1].opcode = "opCall" -> execCall(m, r)
      [] r.pc[1].opcode = "opExit" -> execExit(m, r)
      [] r.pc[1].opcode = "opCut" -> execCut(m, r)
      [] OTHER -> next(m, [r EXCEPT !.pc = Tail(@)])

\* the instruction at pc run by its entry of the jump table; an opcode
\* without entry is written as its number
execOp(m, r) ==
    CASE r.pc[1].opcode = "opVoid" -> execVoid(m, r)
      [] r.pc[1].opcode = "opConst" -> execConst(m, r)
      [] r.pc[1].opcode = "opVar" -> execVar(m, r)
      [] r.pc[1].opcode = "opFunctor" -> execFunctor(m, r)
      [] r.pc[1].opcode = "opPop" -> execPop(m, r)
      [] r.pc[1].opcode = "opEnter" -> execEnter(m, r)
      [] r.pc[1].opcode = "opCall" -> execCall(m, r)
      [] r.pc[1].opcode = "opExit" -> execExit(m, r)
      [] r.pc[1].opcode = "opCut" -> execCut(m, r)
      [] OTHER -> return(m, r, Error(SystemError("unknown opcode: " \o r.pc[1].opcode)))

(***************************************************************************)
(* vm.exec(r) and the continuations.  A continuation is Success, Failure,  *)
(* the rest of a calling clause (Resume) or the consumer of the solutions  *)
(* (Solution): it notes the goal under the bindings and asks for the next  *)
(* solution by failing.                                                    *)
(***************************************************************************)
Solution(goal) == [t |-> "solution", goal |-> goal]

\* the place, in its clause list, of the clause of the goal's procedure
\* that was activated last: the clause a solution comes from (0: none)
Origin(acts, goal) ==
    LET of == {n \in DOMAIN acts : acts[n].pi = <<goal.name, Len(goal.args)>>}
    IN  IF of = {} THEN 0 ELSE acts[CHOOSE n \in of : \A o \in of : o <= n].i

RECURSIVE exec(_, _)
RECURSIVE Continue(_, _, _)
\* k(env)
Continue(m, k, env) ==
    LET m1 == [m EXCEPT !.kcalls = @ + 1, !.bound = @ \cup DOMAIN env]
    IN  CASE k.t = "success" -> [m |-> m1, p |-> Bool(TRUE)]
          [] k.t = "failure" -> [m |-> m1, p |-> Bool(FALSE)]
          [] k.t = "solution" ->
                [m |-> [m1 EXCEPT !.solutions = Append(@, Unfold(k.goal, env, MaxDepth)),
                                  !.origins = Append(@, Origin(m.acts, k.goal))],
                 p |-> Bool(FALSE)]
          [] k.t = "resume" ->
                exec(Allocated(m1, 1),
                     [k.r EXCEPT !.args = Var(m1.nv), !.astack = Var(m1.nv), !.env = env])

exec(m, r) ==
    LET then(s) ==
            CASE s.st = "next" -> exec(s.m, s.r)
              [] s.st = "fail" -> Continue(s.m, s.r.fail, s.r.env)
              [] s.st = "exit" -> Continue(s.m, s.r.exit, s.r.env)
              [] OTHER -> [m |-> s.m, p |-> s.p]
    IN  IF r.cutParent = 0
        THEN exec([m EXCEPT !.np = @ + 1], [r EXCEPT !.cutParent = m.np])
        ELSE IF r.pc = <<>>
        THEN [m |-> m, p |-> Error(SystemError("non-exit end of bytecode"))]
        ELSE then(execOp(m, r))

(***************************************************************************)
(* clauses.call: one thunk per clause, in the order of the clause list,    *)
(* under one Delay that is the cut barrier of every one of them.  A thunk  *)
(* makes a variable for every slot of the clause's vars and starts exec on *)
(* the clause's bytecode.                                                  *)
(***************************************************************************)
\* the thunk of a clause run with the variables stored in the clause
callClauseSharingVars(m, th) ==
    exec([m EXCEPT !.acts = Append(@, [pi |-> KeyOf(th.c.pi), i |-> th.i,
                                       slots |-> Len(th.c.vars), vars |-> th.c.vars])],
         [pc |-> th.c.bytecode, xr |-> th.c.xrTable, vars |-> th.c.vars, args |-> th.args,
          astack |-> Nil, exit |-> th.k, fail |-> Failure, env |-> th.env,
          cutParent |-> th.cutParent])

callClause(m, th) ==
    LET started(vs) ==
            exec([Allocated(m, Len(vs)) EXCEPT
                      !.acts = Append(@, [pi |-> KeyOf(th.c.pi), i |-> th.i,
                                          slots |-> Len(th.c.vars), vars |-> vs])],
                 [pc |-> th.c.bytecode, xr |-> th.c.xrTable, vars |-> vs,
                  args |-> th.args, astack |-> Nil, exit |-> th.k, fail |-> Failure,
                  env |-> th.env, cutParent |-> th.cutParent])
    IN  started([i \in 1..Len(th.c.vars) |-> Var(m.nv + i - 1)])

\* the thunks in the reverse of the order of the clause list
clausesCallReversed(m, cs, args, k, env) ==
    [m |-> [m EXCEPT !.np = @ + 1],
     p |-> DelayAt(m.np, [i \in 1..Len(cs) |->
                             [t |-> "clause", i |-> Len(cs) + 1 - i,
                              c |-> cs[Len(cs) + 1 - i], args |-> args, k |-> k,
                              env |-> env, cutParent |-> m.np]])]

\* the thunks of all clauses but the last
clausesCallWithoutLast(m, cs, args, k, env) ==
    [m |-> [m EXCEPT !.np = @ + 1],
     p |-> DelayAt(m.np, [i \in 1..(Len(cs) - 1) |->
                             [t |-> "clause", i |-> i, c |-> cs[i], args |-> args, k |-> k,
                              env |-> env, cutParent |-> m.np]])]

clausesCall(m, cs, args, k, env) ==
    [m |-> [m EXCEPT !.np = @ + 1],
     p |-> DelayAt(m.np, [i \in 1..Len(cs) |->
                             [t |-> "clause", i |-> i, c |-> cs[i], args |-> args,
                              k |-> k, env |-> env, cutParent |-> m.np]])]

(***************************************************************************)
(* vm.arrive: the procedure of pi called on args with continuation k.      *)
(***************************************************************************)
\* arrive taking a procedure without entry for one that succeeds
arriveUnknownSucceeds(m, pi, args, k, env) ==
    IF pi \notin DOMAIN m.procedures
    THEN [m |-> m, p |-> Delay(<<[t |-> "k", k |-> k, env |-> env]>>)]
    ELSE [m |-> m,
          p |-> Delay(<<[t |-> "pcall", p |-> m.procedures[pi], args |-> args, k |-> k,
                         env |-> env]>>)]

arrive(m, pi, args, k, env) ==
    IF pi \notin DOMAIN m.procedures
    THEN CASE m.unknown = "error" ->
                 [m |-> m, p |-> Error(existenceErrorProcedure(piTerm(pi)))]
           [] m.unknown = "warning" ->
                 [m |-> [m EXCEPT !.warnings = Append(@, pi)], p |-> Bool(FALSE)]
           [] m.unknown = "fail" -> [m |-> m, p |-> Bool(FALSE)]
           [] OTHER -> [m |-> m, p |-> Error(SystemError("unknown unknown"))]
    ELSE [m |-> m,
          p |-> Delay(<<[t |-> "pcall", p |-> m.procedures[pi], args |-> args, k |-> k,
                         env |-> env]>>)]

\* what a call of arrive for a pi without entry did, noted in lastUnknown
Arrived(m, pi, r) ==
    IF pi \in DOMAIN m.procedures THEN r
    ELSE [r EXCEPT !.m.lastUnknown =
                       [pi |-> pi, unknown |-> m.unknown, p |-> r.p,
                        kcalls |-> r.m.kcalls - m.kcalls,
                        warnings |-> SubSeq(r.m.warnings, Len(m.warnings) + 1,
                                            Len(r.m.warnings)),
                        unchanged |-> r.m.procedures = m.procedures]]

(***************************************************************************)
(* Call (builtin.go): the goal is dispatched and forced at once, with the  *)
(* continuation inside the forced promise, and the caller gets the result  *)
(* as a settled promise.                                                   *)
(***************************************************************************)
\* Call handing the promise of arrive to its caller unforced
CallUnforced(m, goal, k, env) ==
    LET called(pa) ==
            IF pa.err THEN [m |-> m, p |-> Error(pa.e)]
            ELSE Arrived(m, pa.pi, arrive(m, pa.pi, pa.args, k, env))
    IN  called(piArgs(goal, env))

Call(m, goal, k, env) ==
    LET forced(r) == [m |-> r.m, p |-> Forced(r.p)]
        called(pa) ==
            IF pa.err THEN [m |-> m, p |-> Error(pa.e)]
            ELSE forced(Arrived(m, pa.pi, arrive(m, pa.pi, pa.args, k, env)))
    IN  called(piArgs(goal, env))

(***************************************************************************)
(* Throw and Catch (builtin.go).  Catch forces Call(goal, k), with the     *)
(* continuation inside the forced promise, and goes on at ca when Force    *)
(* has returned: an exception whose term unifies with the catcher is       *)
(* recovered from, any other error is handed on.                           *)
(***************************************************************************)
\* the errors that are no *Exception: errors.New and fmt.Errorf of the engine
GoErrors == {Atom("wrong number of arguments"), Atom("not a principal functor")}

Throw(m, ball, k, env) ==
    IF Resolve(ball, env).k = "var" THEN [m |-> m, p |-> Error(InstantiationError)]
    ELSE [m |-> m, p |-> Error(Unfold(ball, env, MaxDepth))]

\* what Catch returned, noted in lastCatch
Caught(r, ca, ok, err) ==
    [r EXCEPT !.m.lastCatch =
                  [set |-> TRUE, ca |-> ca, ok |-> ok, err |-> err, p |-> r.p]]

\* Catch recovering from every error, whatever the catcher
catchResumeAnything(m, ca, ok, err) ==
    LET recovered(u) ==
            [m |-> m,
             p |-> Delay(<<[t |-> "call", goal |-> ca.recover, k |-> ca.k,
                            env |-> IF u.ok THEN u.env ELSE ca.env]>>)]
    IN  IF err # NoErr
        THEN recovered(TermUnify(ca.catcher, err, FALSE, ca.env))
        ELSE [m |-> m, p |-> Bool(ok)]

\* Catch after Call(goal, k).Force() has returned (ok, err)
catchResume(m, ca, ok, err) ==
    LET recovered(u) ==
            IF err \notin GoErrors /\ u.ok
            THEN [m |-> m,
                  p |-> Delay(<<[t |-> "call", goal |-> ca.recover, k |-> ca.k,
                                 env |-> u.env]>>)]
            ELSE [m |-> m, p |-> Error(err)]
    IN  IF err # NoErr
        THEN recovered(TermUnify(ca.catcher, err, FALSE, ca.env))
        ELSE [m |-> m, p |-> Bool(ok)]

Catch(m, goal, catcher, recover, k, env) ==
    LET ca == [catcher |-> catcher, recover |-> recover, k |-> k, env |-> env]
        forcing(r) ==
            [m |-> r.m, p |-> ForcedInCatch(IF r.p.t = "force" THEN r.p.inner ELSE r.p, ca)]
    IN  forcing(Call(m, goal, k, env))

(***************************************************************************)
(* Retract (builtin.go) in a run: the loop over the clauses is at lp, with *)
(* the clause lp.i next, when it hands the continuation to Force, and goes *)
(* on from there when Force has returned.  The table gets updated when     *)
(* Retract returns.                                                        *)
(***************************************************************************)
RECURSIVE retractScan(_, _)
retractScan(m, lp) ==
    LET forcing(r) == [m |-> r.m, p |-> ForcedInLoop(r.p, lp)]
        on(u) ==
            IF ~u.ok
            THEN retractScan(m, [lp EXCEPT !.i = @ + 1, !.updated = Append(@, lp.cs[lp.i])])
            ELSE forcing(Continue(m, lp.k, u.env))
    IN  IF lp.i > Len(lp.cs)
        THEN [m |-> [m EXCEPT !.procedures = SetProcedure(@, lp.pi, clauses(lp.updated))],
              p |-> Bool(FALSE)]
        ELSE on(TermUnify(lp.t, Rulify(lp.cs[lp.i].raw), FALSE, lp.env))

\* the loop of Retract after k().Force() has returned (ok, err)
retractResume(m, lp, ok, err) ==
    LET stored == [m EXCEPT !.procedures =
                       SetProcedure(@, lp.pi,
                                    clauses(lp.updated \o SubSeq(lp.cs, lp.i + 1, Len(lp.cs))))]
    IN  IF err # NoErr THEN [m |-> stored, p |-> Error(err)]
        ELSE IF ok THEN [m |-> stored, p |-> Bool(TRUE)]
        ELSE retractScan(m, [lp EXCEPT !.i = @ + 1])

vmRetract(m, t0, k, env) ==
    LET start(t, pa) ==
            CASE pa.err -> [m |-> m, p |-> Error(pa.e)]
              [] ~pa.err /\ pa.pi \notin DOMAIN m.procedures -> [m |-> m, p |-> Bool(FALSE)]
              [] OTHER ->
                    IF m.procedures[pa.pi].kind # "clauses"
                    THEN [m |-> m,
                          p |-> Error(permissionErrorModifyStaticProcedure(piTerm(pa.pi)))]
                    ELSE retractScan(m, [pi |-> pa.pi, cs |-> m.procedures[pa.pi].cs,
                                         i |-> 1, updated |-> <<>>, t |-> t, k |-> k,
                                         env |-> env])
    IN  start(Rulify(t0), piArgs(Rulify(t0).args[1], env))

\* predicate3.Call, which takes the three arguments off args: catch/3
predicate3Call(m, th) ==
    LET v1 == Var(m.nv)
        v2 == Var(m.nv + 1)
        v3 == Var(m.nv + 2)
        builtin(u) ==
            IF ~u.ok
            THEN [m |-> Unified(Allocated(m, 3), u),
                  p |-> Error(Atom("wrong number of arguments"))]
            ELSE Catch(Allocated(m, 3), v1, v2, v3, th.k, u.env)
    IN  builtin(TermUnify(th.args, List(<<v1, v2, v3>>), FALSE, th.env))

\* procedure.Call: clauses.call for a clause list; for a builtin of arity 1
\* predicate1.Call, which takes the one argument off args
\* procedure.Call with assertz and asserta working on a copy of the table
callProcedureOnCopy(m, th) ==
    LET v1 == Var(m.nv)
        onCopy(r) == [m |-> Allocated(m, 1), p |-> r.p]
        builtin(u) ==
            IF ~u.ok
            THEN [m |-> Unified(Allocated(m, 1), u),
                  p |-> Error(Atom("wrong number of arguments"))]
            ELSE CASE th.p.name = "call" -> Call(Allocated(m, 1), v1, th.k, u.env)
                   [] th.p.name = "assertz" ->
                         onCopy(Assertz(m.procedures, Unfold(v1, u.env, MaxDepth), th.k,
                                        u.env))
                   [] th.p.name = "asserta" ->
                         onCopy(Asserta(m.procedures, Unfold(v1, u.env, MaxDepth), th.k,
                                        u.env))
                   [] th.p.name = "retract" ->
                         vmRetract(Allocated(m, 1), Unfold(v1, u.env, MaxDepth), th.k, u.env)
                   [] th.p.name = "throw" -> Throw(Allocated(m, 1), v1, th.k, u.env)
    IN  IF th.p.kind = "clauses" THEN clausesCall(m, th.p.cs, th.args, th.k, th.env)
        ELSE IF th.p.name = "catch" THEN predicate3Call(m, th)
        ELSE builtin(TermUnify(th.args, List(<<v1>>), FALSE, th.env))

callProcedure(m, th) ==
    LET v1 == Var(m.nv)
        inTable(r) == [m |-> [Allocated(m, 1) EXCEPT !.procedures = r.procedures], p |-> r.p]
        builtin(u) ==
            IF ~u.ok
            THEN [m |-> Unified(Allocated(m, 1), u),
                  p |-> Error(Atom("wrong number of arguments"))]
            ELSE CASE th.p.name = "call" -> Call(Allocated(m, 1), v1, th.k, u.env)
                   [] th.p.name = "assertz" ->
                         inTable(Assertz(m.procedures, Unfold(v1, u.env, MaxDepth), th.k,
                                         u.env))
                   [] th.p.name = "asserta" ->
                         inTable(Asserta(m.procedures, Unfold(v1, u.env, MaxDepth), th.k,
                                         u.env))
                   [] th.p.name = "retract" ->
                         vmRetract(Allocated(m, 1), Unfold(v1, u.env, MaxDepth), th.k, u.env)
                   [] th.p.name = "throw" -> Throw(Allocated(m, 1), v1, th.k, u.env)
    IN  IF th.p.kind = "clauses" THEN clausesCall(m, th.p.cs, th.args, th.k, th.env)
        ELSE IF th.p.name = "catch" THEN predicate3Call(m, th)
        ELSE builtin(TermUnify(th.args, List(<<v1>>), FALSE, th.env))

\* a thunk run: the promise it returns and the machine after it
Run(m, th) ==
    CASE th.t = "clause" -> callClause(m, th)
      [] th.t = "arrive" -> Arrived(m, th.pi, arrive(m, th.pi, th.args, th.k, th.env))
      [] th.t = "pcall" -> callProcedure(m, th)
      [] th.t = "exec" -> exec(m, th.r)
      [] th.t = "k" -> Continue(m, th.k, th.env)
      [] th.t = "call" -> Call(m, th.goal, th.k, th.env)
      [] th.t = "ret" -> [m |-> m, p |-> th.p]

\* promiseStack.popUntil(p): the stack without p and everything above it
RECURSIVE popUntil(_, _)
popUntil(stack, id) ==
    IF stack = <<>> THEN <<>>
    ELSE IF stack[Len(stack)].id = id THEN SubSeq(stack, 1, Len(stack) - 1)
    ELSE popUntil(SubSeq(stack, 1, Len(stack) - 1), id)

(***************************************************************************)
(* SetPrologFlag (builtin.go).                                             *)
(***************************************************************************)
\* SetPrologFlag storing whatever atom unknown is set to
SetPrologFlagAnyUnknown(m, flag, value, k, env) ==
    LET done(m1) == [m |-> m1, p |-> Delay(<<[t |-> "k", k |-> k, env |-> env]>>)]
        err(e) == [m |-> m, p |-> Error(e)]
        badValue == err(DomainError("flag_value", Compound("+", <<flag, value>>)))
        on(f, a) ==
            CASE f.k = "var" -> err(InstantiationError)
              [] f.k = "atom" ->
                    CASE f.name \in {"bounded", "max_integer", "min_integer",
                                     "integer_rounding_function", "max_arity"} ->
                            err(PermissionError("modify", "flag", f))
                      [] f.name = "char_conversion" ->
                            CASE a.k = "var" -> err(InstantiationError)
                              [] a.k = "atom" /\ a.name \in {"on", "off"} ->
                                    done([m EXCEPT !.charConvEnabled = (a.name = "on")])
                              [] OTHER -> badValue
                      [] f.name = "debug" ->
                            CASE a.k = "var" -> err(InstantiationError)
                              [] a.k = "atom" /\ a.name \in {"on", "off"} ->
                                    done([m EXCEPT !.debug = (a.name = "on")])
                              [] OTHER -> badValue
                      [] f.name = "unknown" ->
                            CASE a.k = "var" -> err(InstantiationError)
                              [] a.k = "atom" /\ a.name \in {"error", "warning", "fail"} ->
                                    done([m EXCEPT !.unknown = a.name])
                              [] a.k = "atom" -> [m |-> [m EXCEPT !.unknown = a.name],
                                                  p |-> badValue.p]
                              [] OTHER -> badValue
                      [] OTHER -> err(DomainError("prolog_flag", flag))
              [] OTHER -> err(TypeError("atom", flag))
    IN  on(Resolve(flag, env), Resolve(value, env))

SetPrologFlag(m, flag, value, k, env) ==
    LET done(m1) == [m |-> m1, p |-> Delay(<<[t |-> "k", k |-> k, env |-> env]>>)]
        err(e) == [m |-> m, p |-> Error(e)]
        badValue == err(DomainError("flag_value", Compound("+", <<flag, value>>)))
        on(f, a) ==
            CASE f.k = "var" -> err(InstantiationError)
              [] f.k = "atom" ->
                    CASE f.name \in {"bounded", "max_integer", "min_integer",
                                     "integer_rounding_function", "max_arity"} ->
                            err(PermissionError("modify", "flag", f))
                      [] f.name = "char_conversion" ->
                            CASE a.k = "var" -> err(InstantiationError)
                              [] a.k = "atom" /\ a.name \in {"on", "off"} ->
                                    done([m EXCEPT !.charConvEnabled = (a.name = "on")])
                              [] OTHER -> badValue
                      [] f.name = "debug" ->
                            CASE a.k = "var" -> err(InstantiationError)
                              [] a.k = "atom" /\ a.name \in {"on", "off"} ->
                                    done([m EXCEPT !.debug = (a.name = "on")])
                              [] OTHER -> badValue
                      [] f.name = "unknown" ->
                            CASE a.k = "var" -> err(InstantiationError)
                              [] a.k = "atom" /\ a.name \in {"error", "warning", "fail"} ->
                                    done([m EXCEPT !.unknown = a.name])
                              [] OTHER -> badValue
                      [] OTHER -> err(DomainError("prolog_flag", flag))
              [] OTHER -> err(TypeError("atom", flag))
    IN  on(Resolve(flag, env), Resolve(value, env))

(***************************************************************************)
(* The programs consulted and the goals queried.  A query G is run as      *)
(* arrive on G with the continuation Solution(G), forced to exhaustion.    *)
(***************************************************************************)
QX == Var(8)
QY == Var(9)

Fact(name, i) == Compound(name, <<Integer(i)>>)
AddZ(t) == [op |-> "assertz", t |-> t]
AddA(t) == [op |-> "asserta", t |-> t]
Conj(a, b) == Compound(atomComma, <<a, b>>)
\* a clause put into the table as it is, its bytecode made by hand
AddClause(c) == [op |-> "clause", c |-> c]

\* z(X) :- a(X). with an instruction of opcode 255 put after opEnter
UnknownOpcodeClause ==
    LET c == compile(Rule(Compound("z", <<X>>), Compound("a", <<X>>))).c
    IN  [c EXCEPT !.bytecode = SubSeq(@, 1, 2) \o <<instruction("255", 0)>> \o
                                SubSeq(@, 3, Len(@))]

\* p(1). p(2). p(3).
ThreeFacts == <<AddZ(Fact("p", 1)), AddZ(Fact("p", 2)), AddZ(Fact("p", 3))>>

\* a(1). a(2). b(X) :- a(X), !. b(9).
CutProgram ==
    <<AddZ(Fact("a", 1)), AddZ(Fact("a", 2)),
      AddZ(Rule(Compound("b", <<X>>), Conj(Compound("a", <<X>>), Atom(atomCut)))),
      AddZ(Fact("b", 9))>>

Scenarios ==
    {\* clause order
     [program |-> ThreeFacts, goal |-> Compound("p", <<QX>>)],
     [program |-> <<AddA(Fact("p", 1)), AddZ(Fact("p", 2)), AddA(Fact("p", 3)),
                    AddZ(Fact("p", 1))>>,
      goal |-> Compound("p", <<QX>>)],
     \* q(X, Y) :- p(X), !, p(Y).
     [program |-> ThreeFacts \o
                  <<AddZ(Rule(Compound("q", <<X, Y>>),
                              Conj(Compound("p", <<X>>),
                                   Conj(Atom(atomCut), Compound("p", <<Y>>)))))>>,
      goal |-> Compound("q", <<QX, QY>>)],
     \* c(X, Y) :- a(X), b(Y).
     [program |-> CutProgram \o
                  <<AddZ(Rule(Compound("c", <<X, Y>>),
                              Conj(Compound("a", <<X>>), Compound("b", <<Y>>))))>>,
      goal |-> Compound("c", <<QX, QY>>)],
     \* d(X, Y) :- a(X), call(b(Y)). d(7, 7).
     [program |-> CutProgram \o
                  <<AddZ(Rule(Compound("d", <<X, Y>>),
                              Conj(Compound("a", <<X>>),
                                   Compound(atomCall, <<Compound("b", <<Y>>)>>)))),
                    AddZ(Compound("d", <<Integer(7), Integer(7)>>))>>,
      goal |-> Compound("d", <<QX, QY>>)],
     \* e(X) :- call(a(X)), !. e(9).
     [program |-> <<AddZ(Fact("a", 1)), AddZ(Fact("a", 2)),
                    AddZ(Rule(Compound("e", <<X>>),
                              Conj(Compound(atomCall, <<Compound("a", <<X>>)>>),
                                   Atom(atomCut)))),
                    AddZ(Fact("e", 9))>>,
      goal |-> Compound("e", <<QX>>)],
     \* g(X) :- u(X). g(5).  with no procedure u/1
     [program |-> <<AddZ(Rule(Compound("g", <<X>>), Compound("u", <<X>>))),
                    AddZ(Fact("g", 5))>>,
      goal |-> Compound("g", <<QX>>)],
     [program |-> <<>>, goal |-> Compound("u", <<QX>>)],
     \* w(X) :- a(X), assertz(m(X)), asserta(n(X)), a(3). w(0).
     [program |-> <<AddZ(Fact("a", 1)), AddZ(Fact("a", 2)),
                    AddZ(Rule(Compound("w", <<X>>),
                              Conj(Compound("a", <<X>>),
                                   Conj(Compound("assertz", <<Compound("m", <<X>>)>>),
                                        Conj(Compound("asserta", <<Compound("n", <<X>>)>>),
                                             Fact("a", 3)))))),
                    AddZ(Fact("w", 0))>>,
      goal |-> Compound("w", <<QX>>)],
     \* m(1). m(2). r(X) :- a(X), retract(m(X)), a(3). r(0).
     [program |-> <<AddZ(Fact("a", 1)), AddZ(Fact("a", 2)), AddZ(Fact("m", 1)),
                    AddZ(Fact("m", 2)),
                    AddZ(Rule(Compound("r", <<X>>),
                              Conj(Compound("a", <<X>>),
                                   Conj(Compound("retract", <<Compound("m", <<X>>)>>),
                                        Fact("a", 3))))),
                    AddZ(Fact("r", 0))>>,
      goal |-> Compound("r", <<QX>>)],
     \* ok(oops). h(E) :- catch(throw(oops), E, ok(E)), a(2).
     [program |-> <<AddZ(Fact("a", 1)), AddZ(Fact("a", 2)), AddZ(Compound("ok", <<Atom("oops")>>)),
                    AddZ(Rule(Compound("h", <<X>>),
                              Conj(Compound("catch",
                                            <<Compound("throw", <<Atom("oops")>>), X,
                                              Compound("ok", <<X>>)>>),
                                   Fact("a", 2))))>>,
      goal |-> Compound("h", <<QX>>)],
     \* i(E) :- catch(throw(oops), other, ok(E)). i(0).
     [program |-> <<AddZ(Compound("ok", <<Atom("oops")>>)),
                    AddZ(Rule(Compound("i", <<X>>),
                              Compound("catch",
                                       <<Compound("throw", <<Atom("oops")>>), Atom("other"),
                                         Compound("ok", <<X>>)>>))),
                    AddZ(Fact("i", 0))>>,
      goal |-> Compound("i", <<QX>>)],
     \* j(X) :- catch(a(X), Y, ok(X)), a(2).
     [program |-> <<AddZ(Fact("a", 1)), AddZ(Fact("a", 2)), AddZ(Compound("ok", <<Atom("oops")>>)),
                    AddZ(Rule(Compound("j", <<X>>),
                              Conj(Compound("catch",
                                            <<Compound("a", <<X>>), Y, Compound("ok", <<X>>)>>),
                                   Fact("a", 2))))>>,
      goal |-> Compound("j", <<QX>>)],
     \* v(E) :- catch(a(1), E, ok(E)), throw(oops).
     [program |-> <<AddZ(Fact("a", 1)), AddZ(Compound("ok", <<Atom("oops")>>)),
                    AddZ(Rule(Compound("v", <<X>>),
                              Conj(Compound("catch",
                                            <<Fact("a", 1), X, Compound("ok", <<X>>)>>),
                                   Compound("throw", <<Atom("oops")>>))))>>,
      goal |-> Compound("v", <<QX>>)],
     \* p(1). p(2). p(3). t(X) :- p(X), assertz(p(X)).
     [program |-> ThreeFacts \o
                  <<AddZ(Rule(Compound("t", <<X>>),
                              Conj(Compound("p", <<X>>),
                                   Compound("assertz", <<Compound("p", <<X>>)>>))))>>,
      goal |-> Compound("t", <<QX>>)],
     \* p(1). p(2). p(3). u(X) :- p(X), retract(p(3)).
     [program |-> ThreeFacts \o
                  <<AddZ(Rule(Compound("u", <<X>>),
                              Conj(Compound("p", <<X>>),
                                   Compound("retract", <<Fact("p", 3)>>))))>>,
      goal |-> Compound("u", <<QX>>)],
     \* a(1). a(2). and the clause of z/1 with the unknown opcode
     [program |-> <<AddZ(Fact("a", 1)), AddZ(Fact("a", 2)), AddClause(UnknownOpcodeClause)>>,
      goal |-> Compound("z", <<QX>>)]}

\* the flags and values given to SetPrologFlag before a program is consulted
FlagNames == {Atom("unknown"), Atom("debug"), Atom("bounded"), Atom("colour"), QX, Integer(1)}
FlagValues == {Atom("error"), Atom("warning"), Atom("fail"), Atom("on"), QX}

(***************************************************************************)
(* The engine's behaviour: flags are set, a program is consulted clause by *)
(* clause, the goal is queried, and Force runs: every step of its loop     *)
(* pops the promise on top of the stack of the innermost Force.            *)
(***************************************************************************)
NoCut == [barrier |-> 0, cut |-> 0, depth |-> 0, before |-> <<>>]
NoResult == [ok |-> FALSE, err |-> NoErr]

EInit ==
    /\ vm = NewMachine
    /\ frames = <<>>
    /\ phase = "new"
    /\ todo = <<>>
    /\ qgoal = Nil
    /\ outcome = NoResult
    /\ lastCut = NoCut
    /\ lastCall = Bool(FALSE)

\* set_prolog_flag(Flag, Value) on the new engine
SetFlag ==
    /\ phase = "new"
    /\ \E flag \in FlagNames, value \in FlagValues :
          vm' = SetPrologFlag(vm, flag, value, Success, EmptyEnv).m
    /\ phase' = "flagged"
    /\ UNCHANGED <<frames, todo, qgoal, outcome, lastCut, lastCall, uvars, dvars, cvars>>

\* consult: the program and the goal of the run are fixed
Load ==
    /\ phase \in {"new", "flagged"}
    /\ \E s \in Scenarios :
          /\ todo' = s.program
          /\ qgoal' = s.goal
    /\ phase' = "consult"
    /\ UNCHANGED <<vm, frames, outcome, lastCut, lastCall, uvars, dvars, cvars>>

\* consult: the next clause of the program is asserted, or put into the
\* table as it is
Consult ==
    /\ phase = "consult"
    /\ todo # <<>>
    /\ vm' = [vm EXCEPT !.procedures =
                  CASE Head(todo).op = "asserta" ->
                           Asserta(vm.procedures, Head(todo).t, Success, EmptyEnv).procedures
                    [] Head(todo).op = "clause" ->
                           SetProcedure(@, KeyOf(Head(todo).c.pi), clauses(<<Head(todo).c>>))
                    [] OTHER ->
                           Assertz(vm.procedures, Head(todo).t, Success, EmptyEnv).procedures]
    /\ todo' = Tail(todo)
    /\ UNCHANGED <<frames, phase, qgoal, outcome, lastCut, lastCall, uvars, dvars, cvars>>

\* query: Force starts on the promise of the goal
Query ==
    /\ phase = "consult"
    /\ todo = <<>>
    /\ LET started(pa) ==
              /\ ~pa.err
              /\ frames' = <<[stack |-> <<Promise(vm.np,
                                                  Delay(<<[t |-> "arrive", pi |-> pa.pi,
                                                           args |-> pa.args,
                                                           k |-> Solution(qgoal),
                                                           env |-> EmptyEnv]>>))>>,
                              ret |-> "Query"]>>
       IN  started(piArgs(qgoal, EmptyEnv))
    /\ vm' = [vm EXCEPT !.np = @ + 1]
    /\ phase' = "run"
    /\ UNCHANGED <<todo, qgoal, outcome, lastCut, lastCall, uvars, dvars, cvars>>

\* the promise on top of the stack of the innermost Force
Top == frames[Len(frames)].stack[Len(frames[Len(frames)].stack)]
\* that stack without it
Below == SubSeq(frames[Len(frames)].stack, 1, Len(frames[Len(frames)].stack) - 1)

\* the Force a thunk asked for with fp: its stack and what it returns to
Frame(m, fp) ==
    CASE "lp" \in DOMAIN fp ->
             [stack |-> <<Promise(IdOf(m, fp.inner), fp.inner)>>, ret |-> "Retract",
              lp |-> fp.lp]
      [] "ca" \in DOMAIN fp ->
             [stack |-> <<Promise(IdOf(m, fp.inner), fp.inner)>>, ret |-> "Catch",
              ca |-> fp.ca]
      [] OTHER -> [stack |-> <<Promise(IdOf(m, fp.inner), fp.inner)>>, ret |-> "Call"]

\* whether th is the thunk that calls the builtin call/1
IsCall(th) == th.t = "pcall" /\ th.p.kind = "builtin" /\ th.p.name = atomCall

\* Force, case len(p.delayed) > 0: a promise with a barrier cuts the stack
\* back to it, the first thunk is run, p and the promise q it returned go
\* on the stack.  When the thunk itself calls Force (Call), the new Force
\* starts on q and this one waits for it.
ForceDelayed ==
    /\ phase = "run"
    /\ Top.delayed # <<>>
    /\ LET d == Len(frames)
           p == [Top EXCEPT !.delayed = Tail(@), !.cutParent = 0]
           stack == IF Top.cutParent # 0 THEN popUntil(Below, Top.cutParent) ELSE Below
           pushed(r) ==
              /\ ~r.m.diverged
              /\ IF r.p.t = "force"
                 THEN /\ frames' = [frames EXCEPT ![d].stack = Append(stack, p)] \o
                                   <<Frame(r.m, r.p)>>
                      /\ vm' = [r.m EXCEPT !.np = IF IdOf(r.m, r.p.inner) = @ THEN @ + 1 ELSE @]
                      /\ lastCall' = lastCall
                 ELSE /\ frames' = [frames EXCEPT ![d].stack =
                                        stack \o <<p, Promise(IdOf(r.m, r.p), r.p)>>]
                      /\ vm' = [r.m EXCEPT !.np = IF IdOf(r.m, r.p) = @ THEN @ + 1 ELSE @]
                      /\ lastCall' = IF IsCall(Top.delayed[1]) THEN r.p ELSE lastCall
       IN  pushed(Run(vm, Top.delayed[1]))
    /\ lastCut' = IF Top.cutParent # 0
                  THEN [barrier |-> Top.cutParent, cut |-> Top.id, depth |-> Len(frames),
                        before |-> frames]
                  ELSE NoCut
    /\ UNCHANGED <<phase, todo, qgoal, outcome, uvars, dvars, cvars>>

\* Force returns (ok, err): to the consumer of the query, to Call, which
\* hands NewPromise(ok, err) to the Force it was called in, to the loop of
\* Retract, which goes on to the next clause or returns, or to Catch
Returned(ok, err) ==
    IF Len(frames) = 1
    THEN /\ frames' = <<>>
         /\ phase' = "done"
         /\ outcome' = [ok |-> ok, err |-> err]
         /\ UNCHANGED <<vm, lastCall>>
    ELSE LET d == Len(frames)
             handed(r) ==
                IF r.p.t = "force"
                THEN /\ frames' = [frames EXCEPT ![d] = Frame(r.m, r.p)]
                     /\ vm' = [r.m EXCEPT !.np = IF IdOf(r.m, r.p.inner) = @ THEN @ + 1 ELSE @]
                ELSE /\ frames' = [i \in 1..(d - 1) |->
                                      IF i = d - 1
                                      THEN [frames[i] EXCEPT
                                               !.stack = Append(@, Promise(r.m.np, r.p))]
                                      ELSE frames[i]]
                     /\ vm' = [r.m EXCEPT !.np = @ + 1]
         IN  /\ handed(CASE frames[d].ret = "Retract" ->
                               retractResume(vm, frames[d].lp, ok, err)
                          [] frames[d].ret = "Catch" ->
                               Caught(catchResume(vm, frames[d].ca, ok, err), frames[d].ca,
                                      ok, err)
                          [] OTHER -> [m |-> vm, p |-> NewPromise(ok, err)])
             /\ lastCall' = IF frames[d].ret \in {"Call", "Catch"} THEN NewPromise(ok, err)
                           ELSE lastCall
             /\ UNCHANGED <<phase, outcome>>

\* Force, cases p.ok and p.err != nil
ForceSettled ==
    /\ phase = "run"
    /\ Top.delayed = <<>>
    /\ Top.ok \/ Top.err # NoErr
    /\ Returned(Top.ok, Top.err)
    /\ lastCut' = NoCut
    /\ UNCHANGED <<todo, qgoal, uvars, dvars, cvars>>

\* Force, a promise that failed: it is dropped, and Force returns false
\* when the stack is empty
ForceFailed ==
    /\ phase = "run"
    /\ Top.delayed = <<>>
    /\ ~Top.ok
    /\ Top.err = NoErr
    /\ IF Below = <<>> THEN Returned(FALSE, NoErr)
       ELSE /\ frames' = [frames EXCEPT ![Len(frames)].stack = Below]
            /\ UNCHANGED <<vm, phase, outcome, lastCall>>
    /\ lastCut' = NoCut
    /\ UNCHANGED <<todo, qgoal, uvars, dvars, cvars>>

Next == SetFlag \/ Load \/ Consult \/ Query \/ ForceDelayed \/ ForceSettled \/ ForceFailed

\* every part of the model starts from its own initial state
(***************************************************************************)
(* Op (builtin.go): the operator table, kept in the order of the           *)
(* priorities.                                                             *)
(***************************************************************************)
Operator(priority, specifier, name) ==
    [priority |-> priority, specifier |-> specifier, name |-> name]

\* Operator{}
ZeroOperator == Operator(0, "", "")

RemoveAt(ops, i) == SubSeq(ops, 1, i - 1) \o SubSeq(ops, i + 1, Len(ops))

\* the loop over the table as it was when the loop began, n entries long:
\* a removal shifts the entries behind it and leaves Operator{} at the end
RECURSIVE opRemove(_, _, _, _, _, _)
opRemove(ops, i, n, p, s, o) ==
    LET op == IF i <= Len(ops) THEN ops[i] ELSE ZeroOperator
    IN  IF i > n THEN [operators |-> ops, done |-> FALSE]
        ELSE IF op.specifier # s \/ op.name # o THEN opRemove(ops, i + 1, n, p, s, o)
        ELSE IF p = 0 THEN [operators |-> RemoveAt(ops, i), done |-> TRUE]
        ELSE opRemove(RemoveAt(ops, i), i + 1, n, p, s, o)

\* sort.Search(len(ops), priority >= p); i and j count from 0
RECURSIVE opSearch(_, _, _, _)
opSearch(ops, i, j, p) ==
    LET h == (i + j) \div 2
    IN  IF i >= j THEN i
        ELSE IF ops[h + 1].priority >= p THEN opSearch(ops, i, h, p)
        ELSE opSearch(ops, h + 1, j, p)

\* the new entry put behind all others
opInsertLast(ops, p, s, o) == Append(ops, Operator(p, s, o))

opInsert(ops, p, s, o) ==
    LET at(i) == SubSeq(ops, 1, i) \o <<Operator(p, s, o)>> \o SubSeq(ops, i + 1, Len(ops))
    IN  at(opSearch(ops, 0, Len(ops), p))

OpSpecifiers == {"xf", "yf", "xfx", "xfy", "yfx", "fx", "fy"}

Op(ops, priority, specifier, operator) ==
    LET p == Resolve(priority, EmptyEnv)
        s == Resolve(specifier, EmptyEnv)
        o == Resolve(operator, EmptyEnv)
        err(e) == [operators |-> ops, p |-> Error(e)]
        inserted(r) ==
            IF r.done THEN [operators |-> r.operators, p |-> Delay(<<>>)]
            ELSE [operators |-> opInsert(r.operators, p.id, s.name, o.name),
                  p |-> Delay(<<>>)]
    IN  CASE p.k # "int" -> err(TypeError("integer", priority))
          [] p.k = "int" /\ (p.id < 0 \/ p.id > 1200) ->
                err(DomainError("operator_priority", priority))
          [] OTHER ->
                CASE s.k # "atom" -> err(TypeError("atom", specifier))
                  [] s.k = "atom" /\ s.name \notin OpSpecifiers ->
                        err(DomainError("operator_specifier", s))
                  [] OTHER ->
                        IF o.k # "atom" THEN err(TypeError("atom", operator))
                        ELSE inserted(opRemove(ops, 1, Len(ops), p.id, s.name, o.name))

\* the arguments given to Op
OpPriorities ==
    {Integer(0), Integer(200), Integer(700), Integer(1200), Integer(1201), Integer(-1),
     Atom("a"), Var(1)}
OpSpecifierArgs == {Atom("xfx"), Atom("fy"), Atom("a"), Integer(1)}
OpNames == {Atom("+"), Atom("-"), Integer(1)}

NoOpCall ==
    [set |-> FALSE, priority |-> Nil, specifier |-> Nil, operator |-> Nil, before |-> <<>>,
     p |-> Bool(FALSE)]

\* a new engine state has no operator
OInit ==
    /\ operators = <<>>
    /\ olast = NoOpCall
    /\ ocalls = 0

CallOp ==
    /\ ocalls < MaxOpCalls
    /\ \E priority \in OpPriorities, specifier \in OpSpecifierArgs, operator \in OpNames :
          LET r == Op(operators, priority, specifier, operator)
          IN  /\ operators' = r.operators
              /\ olast' = [set |-> TRUE, priority |-> priority, specifier |-> specifier,
                           operator |-> operator, before |-> operators, p |-> r.p]
    /\ ocalls' = ocalls + 1
    /\ UNCHANGED <<clast, fvars, xvars, uvars, dvars, evars>>

(***************************************************************************)
(* The standard order of terms (builtin.go): compare and Compare.          *)
(***************************************************************************)
\* Float(h) is the float h/2
Float(h) == [name |-> "", k |-> "float", id |-> h, args |-> <<>>]

MinInt == -(2 ^ (IntBits - 1))
MaxInt == 2 ^ (IntBits - 1) - 1

\* the Integer a - b: the difference wraps around
Wrap(x) == ((x - MinInt) % (2 ^ IntBits)) + MinInt

\* what compare depends on besides its arguments: what the build makes of
\* a float out of the range of int64 (conv), and the order of the addresses
\* of the variables (heap)
Builds == [conv : {"indefinite", "saturating"}, heap : {"up", "down"}]

\* int64(f) for the float f = h/2: the fraction is dropped; a value out of
\* the range of int64 gives what the build gives, the least integer on a
\* build whose conversion is indefinite, the nearest one where it saturates
ToInt64(h, conv) ==
    LET ranged(t) ==
            CASE MinInt <= t /\ t <= MaxInt -> t
              [] conv = "indefinite" -> MinInt
              [] OTHER -> IF t > 0 THEN MaxInt ELSE MinInt
    IN  ranged(IF h >= 0 THEN h \div 2 ELSE -((-h) \div 2))

Sign(x) == IF x < 0 THEN -1 ELSE IF x > 0 THEN 1 ELSE 0

\* the names of the atoms and functors compared, in the order of their bytes
NameOrder == <<"a", "b", "f", "g">>

\* strings.Compare
StringsCompare(x, y) == Sign(indexOf(NameOrder, x, 1) - indexOf(NameOrder, y, 1))

\* strings.Compare of the addresses ("%p") of two variables
PointerCompare(a, b, heap) ==
    IF a.id = b.id THEN 0
    ELSE IF (a.id < b.id) = (heap = "up") THEN -1 ELSE 1

RECURSIVE compare(_, _, _)
RECURSIVE compareArgs(_, _, _, _)
compareArgs(as, bs, i, build) ==
    LET on(d) == IF d # 0 THEN d ELSE compareArgs(as, bs, i + 1, build)
    IN  IF i > Len(as) THEN 0 ELSE on(compare(as[i], bs[i], build))

compare(a0, b0, build) ==
    LET tie(d, t) == IF d = 0 THEN t ELSE d
        on(a, b) ==
            CASE a.k = "var" -> IF b.k = "var" THEN PointerCompare(a, b, build.heap) ELSE -1
              [] a.k = "float" ->
                    CASE b.k = "var" -> 1
                      [] b.k = "float" -> ToInt64(a.id - b.id, build.conv)
                      [] b.k = "int" -> tie(ToInt64(a.id - 2 * b.id, build.conv), -1)
                      [] OTHER -> -1
              [] a.k = "int" ->
                    CASE b.k = "var" -> 1
                      [] b.k = "float" -> tie(ToInt64(2 * a.id - b.id, build.conv), 1)
                      [] b.k = "int" -> Wrap(a.id - b.id)
                      [] OTHER -> -1
              [] a.k = "atom" ->
                    CASE b.k \in {"var", "float", "int"} -> 1
                      [] b.k = "atom" -> StringsCompare(a.name, b.name)
                      [] OTHER -> -1
              [] a.k = "cmp" ->
                    IF b.k # "cmp" THEN 1
                    ELSE IF Len(a.args) # Len(b.args) THEN Len(a.args) - Len(b.args)
                    ELSE IF StringsCompare(a.name, b.name) # 0
                    THEN StringsCompare(a.name, b.name)
                    ELSE compareArgs(a.args, b.args, 1, build)
              [] OTHER -> 1
    IN  on(Resolve(a0, EmptyEnv), Resolve(b0, EmptyEnv))

\* Compare(order, term1, term2, k): order is unified with <, = or >
Compare(order, term1, term2, build) ==
    LET unified(d) ==
            CASE d < 0 -> Unify(Atom("<"), order, EmptyEnv)
              [] d > 0 -> Unify(Atom(">"), order, EmptyEnv)
              [] OTHER -> Unify(Atom("="), order, EmptyEnv)
        on(o) ==
            CASE o.k = "var" -> unified(compare(term1, term2, build))
              [] o.k = "atom" ->
                    IF o.name \in {"<", "=", ">"} THEN unified(compare(term1, term2, build))
                    ELSE [p |-> "error", e |-> DomainError("order", order)]
              [] OTHER -> [p |-> "error", e |-> TypeError("atom", order)]
    IN  on(Resolve(order, EmptyEnv))

\* the terms compared
CompareTerms ==
    {Var(1), Var(2),
     Integer(MinInt), Integer(-1), Integer(1), Integer(2), Integer(MaxInt),
     Float(-2), Float(2), Float(3), Float(4),
     Atom("a"), Atom("b"),
     Compound("f", <<Integer(1)>>), Compound("f", <<Integer(2)>>),
     Compound("g", <<Integer(1)>>), Compound("b", <<Atom("a"), Atom("a")>>),
     Compound("f", <<Float(3), Atom("a")>>), Compound("f", <<Float(2), Atom("b")>>),
     Compound("f", <<Integer(1), Atom("a")>>), Compound("f", <<Float(2), Atom("a")>>),
     Compound("f", <<Compound("f", <<Integer(1)>>), Var(1)>>),
     Compound("f", <<Compound("f", <<Integer(1)>>), Atom("a")>>)}

\* the orders given to Compare
CompareOrders == {Var(8), Atom("<"), Atom("="), Atom("a"), Integer(1)}

NoCompare ==
    [set |-> FALSE, build |-> [conv |-> "", heap |-> ""], order |-> Nil, term1 |-> Nil,
     term2 |-> Nil, d |-> 0, r |-> [p |-> "false"]]

CInit == clast = NoCompare

\* a comparison depends on nothing done before it: one call in a behaviour
CallCompare ==
    /\ ~clast.set
    /\ \E build \in Builds, order \in CompareOrders, term1 \in CompareTerms,
          term2 \in CompareTerms :
          clast' = [set |-> TRUE, build |-> build, order |-> order, term1 |-> term1,
                    term2 |-> term2, d |-> compare(term1, term2, build),
                    r |-> Compare(order, term1, term2, build)]
    /\ UNCHANGED <<ovars, fvars, xvars, uvars, dvars, evars>>

(***************************************************************************)
(* CurrentPrologFlag (builtin.go), and the flags set and read.             *)
(***************************************************************************)
onOff(b) == IF b THEN Atom("on") ELSE Atom("off")

PrologFlags ==
    {"bounded", "max_integer", "min_integer", "integer_rounding_function",
     "char_conversion", "debug", "max_arity", "unknown"}

\* the pairs of flag and value that CurrentPrologFlag offers, in its order
flags(m) ==
    <<Compound("", <<Atom("bounded"), Atom("true")>>),
      Compound("", <<Atom("max_integer"), Integer(MaxInt)>>),
      Compound("", <<Atom("min_integer"), Integer(MinInt)>>),
      Compound("", <<Atom("integer_rounding_function"), Atom("toward_zero")>>),
      Compound("", <<Atom("char_conversion"), onOff(m.charConvEnabled)>>),
      Compound("", <<Atom("debug"), onOff(m.debug)>>),
      Compound("", <<Atom("max_arity"), Atom("unbounded")>>),
      Compound("", <<Atom("unknown"), Atom(m.unknown)>>)>>

\* the alternatives of Delay(ks...) that get to k, each with its bindings
RECURSIVE flagSolutions(_, _, _)
flagSolutions(pattern, fs, i) ==
    LET on(u) == IF u.p = "delay" THEN <<u.env>> ELSE <<>>
    IN  IF i > Len(fs) THEN <<>>
        ELSE on(Unify(pattern, fs[i], EmptyEnv)) \o flagSolutions(pattern, fs, i + 1)

CurrentPrologFlag(m, flag, value) ==
    LET f == Resolve(flag, EmptyEnv)
        offered == [p |-> Delay(<<>>),
                    solutions |-> flagSolutions(Compound("", <<flag, value>>), flags(m), 1)]
        err(e) == [p |-> Error(e), solutions |-> <<>>]
    IN  CASE f.k = "var" -> offered
          [] f.k = "atom" ->
                IF f.name \in PrologFlags THEN offered
                ELSE err(DomainError("prolog_flag", flag))
          [] OTHER -> err(TypeError("atom", flag))

\* the flags and values given to SetPrologFlag and CurrentPrologFlag
FlagArgs ==
    {Atom("unknown"), Atom("debug"), Atom("char_conversion"), Atom("bounded"),
     Atom("colour"), Var(1), Integer(1)}
ValueArgs ==
    {Atom("error"), Atom("warning"), Atom("fail"), Atom("on"), Atom("off"), Var(2),
     Integer(1)}

NoFlagCall ==
    [op |-> "", flag |-> Nil, value |-> Nil, before |-> <<>>, p |-> Bool(FALSE),
     solutions |-> <<>>]

\* the fields of a new engine state
NewFlags == [charConvEnabled |-> FALSE, debug |-> FALSE, unknown |-> "error"]

FInit ==
    /\ fstate = NewFlags
    /\ fset = [char_conversion |-> Atom("off"), debug |-> Atom("off"),
               unknown |-> Atom("error")]
    /\ flast = NoFlagCall
    /\ fcalls = 0

CallSetPrologFlag ==
    /\ fcalls < MaxFlagCalls
    /\ \E flag \in FlagArgs, value \in ValueArgs :
          LET r == SetPrologFlag(fstate, flag, value, Success, EmptyEnv)
          IN  /\ fstate' = r.m
              /\ fset' = IF r.p.t = "delay" THEN [fset EXCEPT ![flag.name] = value] ELSE fset
              /\ flast' = [op |-> "set", flag |-> flag, value |-> value, before |-> fstate,
                           p |-> r.p, solutions |-> <<>>]
    /\ fcalls' = fcalls + 1
    /\ UNCHANGED <<clast, ovars, xvars, uvars, dvars, evars>>

CallCurrentPrologFlag ==
    /\ \E flag \in FlagArgs, value \in ValueArgs :
          LET r == CurrentPrologFlag(fstate, flag, value)
          IN  flast' = [op |-> "current", flag |-> flag, value |-> value, before |-> fstate,
                        p |-> r.p, solutions |-> r.solutions]
    /\ UNCHANGED <<fstate, fset, fcalls, clast, ovars, xvars, uvars, dvars, evars>>

FNext == CallSetPrologFlag \/ CallCurrentPrologFlag

(***************************************************************************)
(* The streams (builtin.go).  The registry e.streams is a map from terms   *)
(* to streams: a stream opened with an alias is kept under the alias, one  *)
(* opened without under the stream itself.  The streams made by Open are   *)
(* kept in sheap in the order they were made; a stream term is the         *)
(* position of its stream there.                                           *)
(***************************************************************************)
Stream(id) == [k |-> "stream", id |-> id, name |-> "", args |-> <<>>]

\* var s Stream: the zero value, the file it is going to hold is not open yet
ZeroStream ==
    [alias |-> "", mode |-> "", streamType |-> "text", reposition |-> FALSE,
     eofAction |-> "error", file |-> "", closed |-> FALSE]

NoOptionErr == Atom("nil")

\* the function Open gives to Each: one option of the list, on the stream
\* being made
openOption(reg, s, option) ==
    LET o == Resolve(option, EmptyEnv)
        bad == [s |-> s, err |-> DomainError("stream_option", option)]
        set(t) == [s |-> t, err |-> NoOptionErr]
        arg == Resolve(o.args[1], EmptyEnv)
    IN  CASE o.k = "var" -> [s |-> s, err |-> InstantiationError]
          [] o.k = "cmp" ->
                IF Len(o.args) # 1 THEN bad
                ELSE CASE arg.k = "var" /\ o.name \in {"type", "reposition", "alias", "eof_action"} ->
                            [s |-> s, err |-> InstantiationError]
                       [] arg.k # "atom" /\ o.name \in {"type", "reposition", "alias", "eof_action"} ->
                            IF o.name = "alias" THEN bad
                            ELSE [s |-> s, err |-> TypeError("atom", o.args[1])]
                       [] o.name = "type" ->
                            IF arg.name \in {"text", "binary"}
                            THEN set([s EXCEPT !.streamType = arg.name]) ELSE bad
                       [] o.name = "reposition" ->
                            IF arg.name \in {"true", "false"}
                            THEN set([s EXCEPT !.reposition = (arg.name = "true")]) ELSE bad
                       [] o.name = "alias" ->
                            IF arg \in DOMAIN reg
                            THEN [s |-> s,
                                  err |-> PermissionError("open", "source_sink", option)]
                            ELSE set([s EXCEPT !.alias = arg.name])
                       [] o.name = "eof_action" ->
                            IF arg.name \in {"error", "eof_code", "reset"}
                            THEN set([s EXCEPT !.eofAction = arg.name]) ELSE bad
                       [] OTHER -> bad
          [] OTHER -> bad

\* Each(options, f): the options in their order, up to the first error
RECURSIVE openOptions(_, _, _, _)
openOptions(reg, s, options, i) ==
    IF i > Len(options) THEN [s |-> s, err |-> NoOptionErr]
    ELSE LET r == openOption(reg, s, options[i])
         IN  IF r.err # NoOptionErr THEN r ELSE openOptions(reg, r.s, options, i + 1)

\* the key a stream is registered under
streamKey(s, id) == IF s.alias = "" THEN Stream(id) ELSE Atom(s.alias)

Put(reg, key, id) == [x \in DOMAIN reg \cup {key} |-> IF x = key THEN id ELSE reg[x]]
Delete(reg, key) == [x \in DOMAIN reg \ {key} |-> reg[x]]

\* Open(sourceSink, mode, stream, options, k); opened is what os.OpenFile
\* answers: "ok", "notexist", "permission" or another error
Open(reg, heap, sourceSink, mode, stream, options, opened) ==
    LET n == Resolve(sourceSink, EmptyEnv)
        m == Resolve(mode, EmptyEnv)
        err(e) == [reg |-> reg, heap |-> heap, p |-> Error(e), env |-> EmptyEnv]
        r == openOptions(reg, [ZeroStream EXCEPT !.mode = m.name], options, 1)
        s == [r.s EXCEPT !.file = n.name]
        id == Len(heap) + 1
    IN  CASE n.k = "var" -> err(InstantiationError)
          [] n.k # "atom" -> err(DomainError("source_sink", sourceSink))
          [] m.k = "var" -> err(InstantiationError)
          [] m.k # "atom" -> err(TypeError("atom", mode))
          [] m.name \notin {"read", "write", "append"} -> err(DomainError("io_mode", m))
          [] Resolve(stream, EmptyEnv).k # "var" -> err(TypeError("variable", stream))
          [] r.err # NoOptionErr -> err(r.err)
          [] opened = "notexist" -> err(ExistenceError("source_sink", sourceSink))
          [] opened = "permission" ->
                err(PermissionError("open", "source_sink", sourceSink))
          [] opened # "ok" -> err(SystemError(opened))
          [] OTHER ->
                [reg |-> Put(reg, streamKey(s, id), id), heap |-> Append(heap, s),
                 p |-> Delay(<<>>), env |-> Unify(stream, Stream(id), EmptyEnv).env]

\* e.stream(streamOrAlias): the stream meant, 0 with the error when none is
stream(reg, streamOrAlias) ==
    LET s == Resolve(streamOrAlias, EmptyEnv)
    IN  CASE s.k = "var" -> [id |-> 0, err |-> InstantiationError]
          [] s.k = "atom" ->
                IF s \in DOMAIN reg THEN [id |-> reg[s], err |-> NoOptionErr]
                ELSE [id |-> 0, err |-> ExistenceError("stream", streamOrAlias)]
          [] s.k = "stream" -> [id |-> s.id, err |-> NoOptionErr]
          [] OTHER -> [id |-> 0, err |-> DomainError("stream_or_alias", streamOrAlias)]

\* the function Close gives to Each
RECURSIVE closeOptions(_, _, _)
closeOptions(force, options, i) ==
    IF i > Len(options) THEN [force |-> force, err |-> NoOptionErr]
    ELSE LET o == options[i]
         IN  CASE Resolve(o, EmptyEnv).k = "var" ->
                    [force |-> force, err |-> InstantiationError]
               [] Unify(o, Compound("force", <<Atom("false")>>), EmptyEnv).p = "delay" ->
                    closeOptions(FALSE, options, i + 1)
               [] Unify(o, Compound("force", <<Atom("true")>>), EmptyEnv).p = "delay" ->
                    closeOptions(TRUE, options, i + 1)
               [] OTHER -> [force |-> force, err |-> DomainError("stream_option", o)]

ResourceError(resource) ==
    NewException(Compound("resource_error", <<resource>>))

CloseKeepingRegistered(reg, heap, streamOrAlias, options, closed) ==
    [reg |-> reg, heap |-> heap,
     p |-> IF stream(reg, streamOrAlias).err # NoOptionErr
           THEN Error(stream(reg, streamOrAlias).err) ELSE Delay(<<>>)]

\* Close(streamOrAlias, options, k); closed is what s.closer.Close() answers:
\* "ok" or an error, and always an error for a file that is closed already
Close(reg, heap, streamOrAlias, options, closed) ==
    LET f == stream(reg, streamOrAlias)
        o == closeOptions(FALSE, options, 1)
        s == heap[f.id]
        answer == IF s.closed THEN "file already closed" ELSE closed
        after == [heap EXCEPT ![f.id].closed = TRUE]
        err(h, e) == [reg |-> reg, heap |-> h, p |-> Error(e)]
    IN  CASE f.err # NoOptionErr -> err(heap, f.err)
          [] o.err # NoOptionErr -> err(heap, o.err)
          [] answer # "ok" /\ ~o.force -> err(after, ResourceError(streamOrAlias))
          [] OTHER -> [reg |-> Delete(reg, streamKey(s, f.id)), heap |-> after,
                       p |-> Delay(<<>>)]

\* the properties StreamProperty collects for one stream, in its order; size
\* is what Stat answers for the file, whose offset is 0
streamProperties(s, size) ==
    LET one(f, a) == <<Compound(f, <<a>>)>>
    IN  one("mode", Atom(s.mode))
        \o (IF s.alias # "" THEN one("alias", Atom(s.alias)) ELSE <<>>)
        \o one("eof_action", Atom(s.eofAction))
        \o (IF s.mode = "read" THEN <<Atom("input"), Compound("buffer", <<Atom("true")>>)>>
            ELSE <<Atom("output"), Compound("buffer", <<Atom("false")>>)>>)
        \o one("file_name", Atom(s.file))
        \o one("position", Integer(0))
        \o one("end_of_stream", Atom(IF size = 0 THEN "at" ELSE "not"))
        \o one("reposition", Atom(IF s.reposition THEN "true" ELSE "false"))
        \o (CASE s.streamType = "text" -> one("type", Atom("text"))
              [] s.streamType = "binary" -> one("type", Atom("false")))

RECURSIVE propertySolutions(_, _, _, _, _)
propertySolutions(property, heap, ids, size, i) ==
    IF i > Len(ids) THEN <<>>
    ELSE flagSolutions(property, streamProperties(heap[ids[i]], size), 1)
         \o propertySolutions(property, heap, ids, size, i + 1)

\* StreamProperty(streamOrAlias, property, k): the alternatives that get to
\* k, each with its bindings; ranged is the order in which the range over the
\* registry meets its streams
StreamProperty(reg, heap, streamOrAlias, property, size, ranged) ==
    LET s == Resolve(streamOrAlias, EmptyEnv)
        p == Resolve(property, EmptyEnv)
        none == [p |-> Bool(FALSE), solutions |-> <<>>]
        err(e) == [p |-> Error(e), solutions |-> <<>>]
        ids == CASE s.k = "var" -> ranged
                 [] s.k = "atom" -> IF s \in DOMAIN reg THEN <<reg[s]>> ELSE <<>>
                 [] s.k = "stream" -> <<s.id>>
                 [] OTHER -> <<>>
        arg == Resolve(p.args[1], EmptyEnv)
        domain == err(DomainError("stream_property", property))
        closedFile == \E i \in DOMAIN ids : heap[ids[i]].closed
        offered == IF closedFile THEN err(SystemError("file already closed"))
                   ELSE [p |-> Delay(<<>>),
                         solutions |-> propertySolutions(property, heap, ids, size, 1)]
    IN  CASE s.k = "atom" /\ s \notin DOMAIN reg ->
                err(ExistenceError("stream", streamOrAlias))
          [] s.k \notin {"var", "atom", "stream"} ->
                err(DomainError("stream_or_alias", streamOrAlias))
          [] p.k = "var" -> offered
          [] p.k = "atom" -> IF p.name \in {"input", "output"} THEN offered ELSE domain
          [] p.k = "cmp" ->
                IF Len(p.args) # 1 THEN domain
                ELSE CASE p.name \in {"file_name", "mode", "alias", "end_of_stream",
                                      "eof_action", "reposition"} ->
                            IF arg.k \in {"var", "atom"} THEN offered
                            ELSE err(TypeError("atom", arg))
                       [] p.name = "position" ->
                            IF arg.k \in {"var", "int"} THEN offered
                            ELSE err(TypeError("atom", arg))
                       [] OTHER -> domain
          [] OTHER -> domain

\* the orders in which a range over the registry may meet its streams
Ranges(reg) ==
    LET ids == {reg[x] : x \in DOMAIN reg}
    IN  {q \in [1..Cardinality(ids) -> ids] : \A i, j \in DOMAIN q : i # j => q[i] # q[j]}

\* the calls made of Open, Close and StreamProperty
AliasOption(a) == Compound("alias", <<a>>)
TypeOption(t) == Compound("type", <<Atom(t)>>)
OpenOptions ==
    {<<>>, <<AliasOption(Atom("a"))>>, <<AliasOption(Atom("b"))>>,
     <<TypeOption("binary")>>, <<TypeOption("text"), AliasOption(Atom("a"))>>,
     <<TypeOption("octal"), AliasOption(Atom("a"))>>}
OpenCalls ==
    [sourceSink : {Atom("f")}, mode : {Atom("read")}, stream : {Var(1)},
     options : OpenOptions, opened : {"ok"}]
    \cup [sourceSink : {Atom("f")}, mode : {Atom("write")}, stream : {Var(1)},
          options : {<<AliasOption(Atom("a"))>>}, opened : {"ok", "notexist"}]
    \cup [sourceSink : {Var(3)}, mode : {Atom("read")}, stream : {Var(1)},
          options : {<<AliasOption(Atom("a"))>>}, opened : {"ok"}]
ForceOption(b) == Compound("force", <<Atom(b)>>)
CloseCalls ==
    [options : {<<>>}, closed : {"ok", "input/output error"}]
    \cup [options : {<<ForceOption("true")>>}, closed : {"input/output error"}]
StreamArgs(heap) == {Atom("a"), Atom("b"), Var(1), Integer(1)} \cup {Stream(i) : i \in DOMAIN heap}
PropertyArgs == {Var(2), Compound("type", <<Var(2)>>)}

NoStreamCall ==
    [op |-> "", arg |-> Nil, options |-> <<>>, before |-> <<>>, p |-> Bool(FALSE),
     env |-> EmptyEnv, solutions |-> <<>>]

SInit ==
    /\ streams = [x \in {} |-> 0]
    /\ sheap = <<>>
    /\ slast = NoStreamCall
    /\ scalls = 0

CallOpen ==
    /\ scalls < MaxStreamCalls
    /\ \E c \in OpenCalls :
          LET r == Open(streams, sheap, c.sourceSink, c.mode, c.stream, c.options, c.opened)
          IN  /\ streams' = r.reg
              /\ sheap' = r.heap
              /\ slast' = [op |-> "open", arg |-> c, options |-> c.options,
                           before |-> streams, p |-> r.p, env |-> r.env,
                           solutions |-> <<>>]
    /\ scalls' = scalls + 1
    /\ UNCHANGED <<pvars, ivars, clast, ovars, fvars, uvars, dvars, evars>>

CallClose ==
    /\ scalls < MaxStreamCalls
    /\ \E s \in StreamArgs(sheap), c \in CloseCalls :
          LET r == Close(streams, sheap, s, c.options, c.closed)
          IN  /\ streams' = r.reg
              /\ sheap' = r.heap
              /\ slast' = [op |-> "close", arg |-> s, options |-> c.options,
                           before |-> streams, p |-> r.p, env |-> EmptyEnv,
                           solutions |-> <<>>]
    /\ scalls' = scalls + 1
    /\ UNCHANGED <<pvars, ivars, clast, ovars, fvars, uvars, dvars, evars>>

CallStreamProperty ==
    /\ scalls < MaxStreamCalls
    /\ \E s \in StreamArgs(sheap), property \in PropertyArgs, ranged \in Ranges(streams) :
          LET r == StreamProperty(streams, sheap, s, property, 1, ranged)
          IN  slast' = [op |-> "stream_property", arg |-> s, options |-> <<property>>,
                        before |-> streams, p |-> r.p, env |-> EmptyEnv,
                        solutions |-> r.solutions]
    /\ scalls' = scalls + 1
    /\ UNCHANGED <<streams, sheap, pvars, ivars, clast, ovars, fvars, uvars, dvars, evars>>

SNext == CallOpen \/ CallClose \/ CallStreamProperty

(***************************************************************************)
(* bagof and setof (builtin.go, collectionOf).  The goal is run by the     *)
(* engine; sols are the bindings of its solutions in the order the engine  *)
(* finds them, and collectionOf is what is done with them.                 *)
(***************************************************************************)
\* Set(ts...), which the excerpt does not hold: the terms in the standard
\* order, one of each
RECURSIVE setInsert(_, _, _)
setInsert(ts, t, build) ==
    LET on(d) == CASE d = 0 -> ts
                   [] d < 0 -> <<t>> \o ts
                   [] OTHER -> <<Head(ts)>> \o setInsert(Tail(ts), t, build)
    IN  IF ts = <<>> THEN <<t>> ELSE on(compare(t, Head(ts), build))

RECURSIVE Set(_, _)
Set(ts, build) ==
    IF ts = <<>> THEN <<>>
    ELSE setInsert(Set(SubSeq(ts, 1, Len(ts) - 1), build), ts[Len(ts)], build)

\* t.Copy(): the term under the bindings
RECURSIVE Copy(_, _)
Copy(t, env) ==
    LET r == Resolve(t, env)
    IN  IF r.k = "cmp" THEN Compound(r.name, [i \in DOMAIN r.args |-> Copy(r.args[i], env)])
        ELSE r

\* an assignment in the order of its variables
RECURSIVE assignmentSeq(_)
assignmentSeq(S) ==
    IF S = {} THEN <<>>
    ELSE LET x == CHOOSE y \in S : \A z \in S : y <= z
         IN  <<x>> \o assignmentSeq(S \ {x})

\* the loop labelled solutions: the first group from the i-th on whose
\* snapshots all compare = with the new ones, 0 when there is none
RECURSIVE groupOf(_, _, _, _)
groupOf(solutions, snapshots, i, build) ==
    IF i > Len(solutions) THEN 0
    ELSE IF \A j \in DOMAIN snapshots :
                Compare(Atom("="), solutions[i].snapshots[j], snapshots[j], build).p = "delay"
         THEN i
         ELSE groupOf(solutions, snapshots, i + 1, build)

\* the continuation collectionOf gives to Call, once for each solution
RECURSIVE collect(_, _, _, _, _, _)
collect(solutions, groupingVariables, template, sols, n, build) ==
    LET added(snapshots, g, copy) ==
            IF g # 0 THEN [solutions EXCEPT ![g].bag = Append(@, copy)]
            ELSE Append(solutions, [snapshots |-> snapshots, bag |-> <<copy>>])
        grouped(snapshots) ==
            added(snapshots, groupOf(solutions, snapshots, 1, build), Copy(template, sols[n]))
    IN  IF n > Len(sols) THEN solutions
        ELSE collect(grouped([i \in DOMAIN groupingVariables |->
                                 Resolve(Var(groupingVariables[i]), sols[n])]),
                     groupingVariables, template, sols, n + 1, build)

\* the grouping variables of collectionOf: the variables of the goal without
\* its qualifier that are neither of the template nor of the qualifier
groupingVariablesOf(template, goal) ==
    LET on(qualifier, body) ==
            assignmentSeq(newAssignment(<<body>>, EmptyEnv)
                          \ newAssignment(<<template, qualifier>>, EmptyEnv))
    IN  IF goal.k = "cmp" /\ goal.name = "^" /\ Len(goal.args) = 2
        THEN on(goal.args[1], goal.args[2])
        ELSE on(Var(0), goal)

collectionOfLastGroupFirst(template, goal, instances, agg, sols, build) ==
    LET offered(solutions, n) ==
            IF n = 0 THEN [p |-> Bool(FALSE), ks |-> <<>>]
            ELSE [p |-> Delay(<<>>),
                  ks |-> [i \in 1..n |->
                            [snapshots |-> solutions[n + 1 - i].snapshots,
                             bag |-> solutions[n + 1 - i].bag,
                             instances |-> <<List(solutions[n + 1 - i].bag)>>]]]
        all(solutions) == offered(solutions, Len(solutions))
    IN  IF Resolve(goal, EmptyEnv).k = "var" THEN [p |-> Error(InstantiationError), ks |-> <<>>]
        ELSE all(collect(<<>>, groupingVariablesOf(template, goal), template, sols, 1, build))

\* collectionOf(template, goal, instances, k, agg): the alternatives that
\* are offered, each with the snapshots it reverts to and what instances is
\* unified with
collectionOf(template, goal, instances, agg, sols, build) ==
    LET unified(s, u) ==
            [snapshots |-> s.snapshots, bag |-> s.bag,
             instances |-> IF u.p = "delay" THEN <<Resolve(instances, u.env)>> ELSE <<>>]
        offered(s) ==
            unified(s, Unify(instances,
                             List(IF agg = "List" THEN s.bag ELSE Set(s.bag, build)),
                             EmptyEnv))
        all(solutions) ==
            IF Len(solutions) = 0 THEN [p |-> Bool(FALSE), ks |-> <<>>]
            ELSE [p |-> Delay(<<>>),
                  ks |-> [i \in DOMAIN solutions |-> offered(solutions[i])]]
    IN  IF Resolve(goal, EmptyEnv).k = "var"
        THEN [p |-> Error(InstantiationError), ks |-> <<>>]
        ELSE all(collect(<<>>, groupingVariablesOf(template, goal), template, sols, 1, build))

\* the calls made: the template is X, the goal p(X, W), W^p(X, W), p(X) or
\* unbound, and a solution binds X and W
Templates == {Atom("a"), Atom("b")}
GroupingValues == {Integer(1), Float(2), Float(3), Float(4)}
SolutionsUpTo(n) ==
    UNION {[1..m -> [t : Templates, w : GroupingValues]] : m \in 0..n}
BagGoals ==
    {Compound("p", <<Var(1), Var(2)>>),
     Compound("^", <<Var(2), Compound("p", <<Var(1), Var(2)>>)>>),
     Compound("p", <<Var(1)>>), Var(9)}

NoBagCall ==
    [set |-> FALSE, agg |-> "", goal |-> Nil, sols |-> <<>>, p |-> Bool(FALSE), ks |-> <<>>]

BInit == blast = NoBagCall

\* a collection depends on nothing done before it: one call in a behaviour
CallCollectionOf ==
    /\ ~blast.set
    /\ \E agg \in {"List", "Set"}, goal \in BagGoals, found \in SolutionsUpTo(MaxSolutions),
          build \in Builds :
          LET called(r) ==
                  blast' = [set |-> TRUE, agg |-> agg, goal |-> goal, sols |-> found,
                            p |-> r.p, ks |-> r.ks]
          IN  called(collectionOf(Var(1), goal, Var(3), agg,
                                  [i \in DOMAIN found |->
                                      (1 :> found[i].t) @@ (2 :> found[i].w)],
                                  build))
    /\ UNCHANGED <<svars, alast, klast, ivars, clast, ovars, fvars, uvars, dvars, evars>>

(***************************************************************************)
(* Arg (builtin.go).                                                       *)
(***************************************************************************)
\* the alternatives of Arg for an unbound nth that get to k, each with its
\* bindings
RECURSIVE argSolutions(_, _, _, _)
argSolutions(n, arg, args, i) ==
    LET u == Unify(Compound("", <<n, arg>>), Compound("", <<Integer(i), args[i]>>), EmptyEnv)
    IN  IF i > Len(args) THEN <<>>
        ELSE (IF u.p = "delay" THEN <<u.env>> ELSE <<>>) \o argSolutions(n, arg, args, i + 1)

\* Arg(nth, term, arg, k)
Arg(nth, term, arg) ==
    LET t == Resolve(term, EmptyEnv)
        n == Resolve(nth, EmptyEnv)
        u == Unify(arg, t.args[n.id], EmptyEnv)
    IN  CASE t.k # "cmp" -> [p |-> Error(TypeError("compound", term)), solutions |-> <<>>]
          [] n.k = "var" ->
                [p |-> Delay(<<>>), solutions |-> argSolutions(n, arg, t.args, 1)]
          [] n.k = "int" ->
                IF n.id = 0 \/ n.id >= Len(t.args)
                THEN [p |-> Bool(FALSE), solutions |-> <<>>]
                ELSE IF n.id < 0
                THEN [p |-> Error(DomainError("not_less_than_zero", n)), solutions |-> <<>>]
                ELSE [p |-> Delay(<<>>),
                      solutions |-> IF u.p = "delay" THEN <<u.env>> ELSE <<>>]
          [] OTHER -> [p |-> Error(TypeError("integer", n)), solutions |-> <<>>]

\* the calls made
NthArgs == {Integer(i) : i \in -2..MaxNth} \cup {Var(1), Atom("a")}
TermArgs ==
    {Compound("f", <<Atom("a")>>), Compound("f", <<Atom("a"), Atom("b")>>),
     Compound("f", <<Atom("a"), Atom("b"), Atom("c")>>),
     Compound("g", <<Var(3), Atom("a")>>), Atom("a"), Integer(1)}
ArgArgs == {Var(2), Atom("a"), Atom("b"), Atom("c")}

NoArgCall ==
    [set |-> FALSE, nth |-> Nil, term |-> Nil, arg |-> Nil, p |-> Bool(FALSE),
     solutions |-> <<>>]

AInit == alast = NoArgCall

\* Arg depends on nothing done before it: one call in a behaviour
CallArg ==
    /\ ~alast.set
    /\ \E nth \in NthArgs, term \in TermArgs, arg \in ArgArgs :
          LET r == Arg(nth, term, arg)
          IN  alast' = [set |-> TRUE, nth |-> nth, term |-> term, arg |-> arg, p |-> r.p,
                        solutions |-> r.solutions]
    /\ UNCHANGED <<svars, blast, klast, ivars, clast, ovars, fvars, uvars, dvars, evars>>

(***************************************************************************)
(* The clause compiler of engine/clause.go: compile gives a clause for     *)
(* every alternative of the body of a rule, head arguments are compiled to *)
(* get instructions and body arguments to put instructions.  Besides       *)
(* variables, atoms, numbers and compounds, a term is a list (its args the *)
(* elements), a partial list (its args the tail and then the prefix) or a  *)
(* character list, which is compiled as a constant.                        *)
(***************************************************************************)
list(xs) == [k |-> "list", id |-> 0, name |-> "", args |-> xs]
partial(prefix, tail) == [k |-> "partial", id |-> 0, name |-> "", args |-> <<tail>> \o prefix]
charList(s) == [k |-> "charList", id |-> 0, name |-> s, args |-> <<>>]

atomSemiColon == ";"
atomThen == "->"

\* altIterator: the alternatives of a body A ; B ; C in order; a body
\* (C -> T ; E) is one alternative
RECURSIVE altIterator(_)
altIterator(alt) ==
    IF alt.k = "cmp" /\ alt.name = atomSemiColon /\ Len(alt.args) = 2
    THEN LET l == alt.args[1]
         IN  IF l.k = "cmp" /\ l.name = atomThen /\ Len(l.args) = 2 THEN <<alt>>
             ELSE <<l>> \o altIterator(alt.args[2])
    ELSE <<alt>>

RECURSIVE compileArgH(_, _)
RECURSIVE compileArgsH(_, _, _)
\* compileArgH leaving out the opPop behind the arguments of a compound
compileArgHWithoutPop(c, a) ==
    LET emitAt(opcode, r) == emit(r.c, opcode, r.off)
    IN  CASE a.k = "var" -> emitAt("opGetVar", varOffset(c, a))
          [] a.k = "cmp" ->
                compileArgsH(emitAt("opGetFunctor",
                                    xrOffset(c, procedureIndicator(a.name, Len(a.args)))),
                             a.args, 1)
          [] OTHER -> emitAt("opGetConst", xrOffset(c, a))

\* the loop over the arguments, c1 the clause as the i-th argument left it
compileArgsH(c, as, i) ==
    IF i > Len(as) THEN c
    ELSE CHOOSE r \in {compileArgsH(c1, as, i + 1) : c1 \in {compileArgH(c, as[i])}} : TRUE

compileArgH(c, a) ==
    LET emitAt(opcode, r) == emit(r.c, opcode, r.off)
    IN  CASE a.k = "var" -> emitAt("opGetVar", varOffset(c, a))
          [] a.k = "charList" -> emitAt("opGetConst", xrOffset(c, a))
          [] a.k = "list" ->
                emit(compileArgsH(emitAt("opGetList", xrOffset(c, Integer(Len(a.args)))),
                                  a.args, 1),
                     "opPop", 0)
          [] a.k = "partial" ->
                emit(compileArgsH(emitAt("opGetPartial",
                                         xrOffset(c, Integer(Len(a.args) - 1))),
                                  a.args, 1),
                     "opPop", 0)
          [] a.k = "cmp" ->
                emit(compileArgsH(emitAt("opGetFunctor",
                                         xrOffset(c, procedureIndicator(a.name, Len(a.args)))),
                                  a.args, 1),
                     "opPop", 0)
          [] OTHER -> emitAt("opGetConst", xrOffset(c, a))

RECURSIVE compileArgB(_, _)
RECURSIVE compileArgsB(_, _, _)
compileArgsB(c, as, i) ==
    IF i > Len(as) THEN c
    ELSE CHOOSE r \in {compileArgsB(c1, as, i + 1) : c1 \in {compileArgB(c, as[i])}} : TRUE

compileArgBAsHead(c, a) == compileArgH(c, a)

compileArgB(c, a) ==
    LET emitAt(opcode, r) == emit(r.c, opcode, r.off)
    IN  CASE a.k = "var" -> emitAt("opPutVar", varOffset(c, a))
          [] a.k = "charList" -> emitAt("opPutConst", xrOffset(c, a))
          [] a.k = "list" ->
                emit(compileArgsB(emitAt("opPutList", xrOffset(c, Integer(Len(a.args)))),
                                  a.args, 1),
                     "opPop", 0)
          [] a.k = "partial" ->
                emit(compileArgsB(emitAt("opPutPartial",
                                         xrOffset(c, Integer(Len(a.args) - 1))),
                                  a.args, 1),
                     "opPop", 0)
          [] a.k = "cmp" ->
                emit(compileArgsB(emitAt("opPutFunctor",
                                         xrOffset(c, procedureIndicator(a.name, Len(a.args)))),
                                  a.args, 1),
                     "opPop", 0)
          [] OTHER -> emitAt("opPutConst", xrOffset(c, a))

compileHead(c, head) ==
    CASE head.k = "atom" -> [c EXCEPT !.pi = procedureIndicator(head.name, 0)]
      [] head.k = "cmp" ->
            compileArgsH([c EXCEPT !.pi = procedureIndicator(head.name, Len(head.args))],
                         head.args, 1)
      [] OTHER -> c

\* clause.compilePred of clause.go: the clause with goal p compiled, or err
RECURSIVE engineCompilePred(_, _)
engineCompilePred(c, p) ==
    LET emitCall(r) == [c |-> emit(r.c, "opCall", r.off), err |-> FALSE]
    IN  CASE p.k = "var" -> engineCompilePred(c, Compound(atomCall, <<p>>))
          [] p.k = "atom" ->
                IF p.name = atomCut THEN [c |-> emit(c, "opCut", 0), err |-> FALSE]
                ELSE emitCall(xrOffset(c, procedureIndicator(p.name, 0)))
          [] p.k = "cmp" ->
                emitCall(xrOffset(compileArgsB(c, p.args, 1),
                                  procedureIndicator(p.name, Len(p.args))))
          [] OTHER -> [c |-> c, err |-> TRUE]

RECURSIVE engineCompilePreds(_, _, _)
engineCompilePreds(c, ps, i) ==
    IF i > Len(ps) THEN [c |-> c, err |-> FALSE]
    ELSE LET rest(r) == IF r.err THEN r ELSE engineCompilePreds(r.c, ps, i + 1)
         IN  rest(engineCompilePred(c, ps[i]))

\* clause.compileBody of clause.go
engineCompileBody(c, body) ==
    engineCompilePreds(emit(c, "opEnter", 0), seqIterator(body), 1)

engineCompileClauseWithoutExit(head, body, hasBody) ==
    LET withBody(c1) ==
            IF hasBody THEN engineCompileBody(c1, body) ELSE [c |-> c1, err |-> FALSE]
    IN  CHOOSE r \in {withBody(c1) : c1 \in {compileHead(NoClause, head)}} : TRUE

\* compileClause(head, body) of clause.go; hasBody is body != nil.  c1 is
\* the clause as compileHead left it, a value before the body is compiled
engineCompileClause(head, body, hasBody) ==
    LET ended(r) ==
            IF r.err THEN [c |-> r.c, err |-> TRUE]
            ELSE [c |-> emit(r.c, "opExit", 0), err |-> FALSE]
        withBody(c1) ==
            IF hasBody THEN engineCompileBody(c1, body) ELSE [c |-> c1, err |-> FALSE]
    IN  CHOOSE r \in {ended(withBody(c1)) : c1 \in {compileHead(NoClause, head)}} : TRUE

\* the loop of compile over the alternatives from the i-th on
RECURSIVE compileAlternatives(_, _, _, _)
compileAlternatives(t, alts, i, cs) ==
    IF i > Len(alts) THEN [cs |-> cs, err |-> NoErr]
    ELSE LET r == engineCompileClause(t.args[1], alts[i], TRUE)
         IN  IF r.err THEN [cs |-> <<>>, err |-> TypeError("callable", t.args[2])]
             ELSE compileAlternatives(t, alts, i + 1, Append(cs, [r.c EXCEPT !.raw = t]))

engineCompileFirstAlternative(t) ==
    IF t.k = "cmp" /\ t.name = atomIf /\ Len(t.args) = 2
    THEN compileAlternatives(t, <<altIterator(t.args[2])[1]>>, 1, <<>>)
    ELSE [cs |-> <<[engineCompileClause(t, Nil, FALSE).c EXCEPT !.raw = t]>>, err |-> NoErr]

\* compile(t, env) of clause.go: the clauses of the fact or rule t
engineCompile(t) ==
    IF t.k = "cmp" /\ t.name = atomIf /\ Len(t.args) = 2
    THEN compileAlternatives(t, altIterator(t.args[2]), 1, <<>>)
    ELSE [cs |-> <<[engineCompileClause(t, Nil, FALSE).c EXCEPT !.raw = t]>>, err |-> NoErr]

\* the VM of the excerpt runs the instructions of the compiler of builtin.go:
\* the clause of a fact called with args, the last n instructions of its
\* bytecode taken away
execWithout(t, args, n) ==
    LET c == compile(t).c
        m == NewMachine
    IN  exec(Allocated(m, Len(c.vars)),
             [pc |-> SubSeq(c.bytecode, 1, Len(c.bytecode) - n), xr |-> c.xrTable,
              vars |-> [i \in 1..Len(c.vars) |-> Var(m.nv + i - 1)], args |-> args,
              astack |-> Nil, exit |-> Success, fail |-> Failure, env |-> EmptyEnv,
              cutParent |-> 0]).p

\* the terms compiled: the heads, the goals an alternative is made of and
\* the bodies of up to MaxAlternatives alternatives
CompileHeads ==
    {Atom("h"), Compound("h", <<Var(1)>>), Compound("h", <<Atom("a"), Var(1)>>),
     Compound("h", <<Compound("f", <<Var(1), Integer(1)>>)>>),
     Compound("h", <<list(<<Atom("a"), Var(1)>>)>>),
     Compound("h", <<partial(<<Atom("a")>>, Var(1))>>),
     Compound("h", <<charList("ab")>>),
     Compound("h", <<Compound("f", <<Compound("g", <<Var(1)>>), Atom("a")>>)>>)}
CompileGoals ==
    {Atom("g"), Atom(atomCut), Var(2),
     Compound("g", <<Var(1), Compound("f", <<Atom("a")>>)>>),
     Compound(atomComma, <<Compound("g", <<list(<<Var(2)>>), partial(<<Var(1)>>, Var(2))>>),
                           Atom(atomCut)>>),
     Integer(1)}
RECURSIVE Alternatives(_)
Alternatives(gs) ==
    IF Len(gs) = 1 THEN gs[1]
    ELSE Compound(atomSemiColon, <<Head(gs), Alternatives(Tail(gs))>>)
IfThenElse(c, t, e) == Compound(atomSemiColon, <<Compound(atomThen, <<c, t>>), e>>)
CompileBodies ==
    {Alternatives(gs) : gs \in UNION {[1..n -> CompileGoals] : n \in 1..MaxAlternatives}}
    \cup {IfThenElse(Atom("c"), Atom("t"), Atom("e")),
          Alternatives(<<Atom("g"), IfThenElse(Atom("c"), Atom("t"), Atom("e"))>>),
          IfThenElse(Atom("c"), Atom("t"), Alternatives(<<Atom("e"), Atom("g")>>)),
          Compound(atomSemiColon, <<Alternatives(<<Atom("a"), Atom("b")>>), Atom("g")>>)}
CompileTerms ==
    CompileHeads \cup {Rule(h, b) : h \in CompileHeads, b \in CompileBodies}
    \cup {Integer(1), Var(1)}

\* the facts run without their opExit, and what they are called with
RunFacts ==
    {Atom("h"), Compound("h", <<Atom("a")>>), Compound("h", <<Var(1), Integer(1)>>),
     Compound("h", <<Compound("f", <<Var(1), Atom("b")>>)>>)}
RunArgs(t) == {List(t.args), List(<<Atom("zz")>>)}

NoCompile ==
    [set |-> FALSE, op |-> "", t |-> Nil, cs |-> <<>>, err |-> NoErr, args |-> Nil,
     whole |-> Bool(FALSE), ran |-> Bool(FALSE)]

KInit == klast = NoCompile

\* a compilation depends on nothing done before it: one call in a behaviour
CallCompile ==
    /\ ~klast.set
    /\ \E t \in CompileTerms :
          LET r == engineCompile(t)
          IN  klast' = [NoCompile EXCEPT !.set = TRUE, !.op = "compile", !.t = t,
                                         !.cs = r.cs, !.err = r.err]
    /\ UNCHANGED <<svars, blast, alast, ivars, clast, ovars, fvars, uvars, dvars, evars>>

\* the VM on the bytecode of a fact, whole and without its last instruction
RunWithoutExit ==
    /\ ~klast.set
    /\ \E t \in RunFacts :
          \E args \in RunArgs(t) :
              klast' = [NoCompile EXCEPT !.set = TRUE, !.op = "run", !.t = t,
                                         !.args = args, !.whole = execWithout(t, args, 0),
                                         !.ran = execWithout(t, args, 1)]
    /\ UNCHANGED <<svars, blast, alast, ivars, clast, ovars, fvars, uvars, dvars, evars>>

\* the arguments of a head with many operands: the i-th is a new integer, a
\* new variable, the two in turn, or every third one the first again
WideKinds == {"constants", "variables", "both", "constantsAgain", "variablesAgain"}
MaxOperands == 2 ^ ByteBits + MaxBeyondByte
WideArg(kind, i) ==
    CASE kind = "constants" -> Integer(i)
      [] kind = "variables" -> Var(i)
      [] kind = "both" -> IF i % 2 = 0 THEN Integer(i) ELSE Var(i)
      [] kind = "constantsAgain" -> IF i % 3 = 0 THEN Integer(1) ELSE Integer(i)
      [] OTHER -> IF i % 3 = 0 THEN Var(1) ELSE Var(i)

\* one turn of the loop of compileHead over the arguments of the head:
\* compileArgH of the next argument, on the clause the turns before left
CallCompileArg ==
    /\ \E kind \in WideKinds :
          LET compiled(c, as, a) ==
                  klast' = [NoCompile EXCEPT !.set = TRUE, !.op = kind,
                                             !.t = Compound("h", Append(as, a)),
                                             !.cs = <<compileArgH(c, a)>>]
              turn(c, as) == compiled(c, as, WideArg(kind, Len(as) + 1))
          IN  \/ /\ ~klast.set
                 /\ turn(NoClause, <<>>)
              \/ /\ klast.set
                 /\ klast.op = kind
                 /\ Len(klast.t.args) < MaxOperands
                 /\ turn(klast.cs[1], klast.t.args)
    /\ UNCHANGED <<svars, blast, alast, ivars, clast, ovars, fvars, uvars, dvars, evars>>

\* the rules run up to their first goal: the head has structures, nested
\* and side by side, and the call has them or has another structure there
RunRules ==
    {Rule(Compound("h", <<Compound("f", <<Var(1), Compound("g", <<Var(2)>>)>>)>>), Atom("g")),
     Rule(Compound("h", <<Compound("f", <<Atom("a")>>), Compound("g", <<Var(1)>>)>>),
          Atom("g")),
     Rule(Compound("h", <<Var(1), Atom("a")>>), Atom("g"))}
OtherStructures(t) == List([i \in DOMAIN t.args[1].args |-> Compound("zz", <<Atom("a")>>)])
RunRuleArgs(t) ==
    {List(t.args[1].args), List([i \in DOMAIN t.args[1].args |-> Var(10 + i)]),
     OtherStructures(t)}

\* the VM on the bytecode of a rule, up to the promise of its first goal
RunToEnter ==
    /\ ~klast.set
    /\ \E t \in RunRules :
          \E args \in RunRuleArgs(t) :
              klast' = [NoCompile EXCEPT !.set = TRUE, !.op = "enter", !.t = t,
                                         !.cs = <<compile(t).c>>, !.args = args,
                                         !.whole = execWithout(t, args, 0)]
    /\ UNCHANGED <<svars, blast, alast, ivars, clast, ovars, fvars, uvars, dvars, evars>>

KNext == CallCompile \/ RunWithoutExit \/ RunToEnter

(***************************************************************************)
(* The current input and output streams (builtin.go, SetUserInput and      *)
(* SetUserOutput of the VM).  input and output are the positions of the    *)
(* streams in sheap, 0 for none.                                           *)
(***************************************************************************)
permissionErrorInputStream(culprit) == PermissionError("input", "stream", culprit)
permissionErrorOutputStream(culprit) == PermissionError("output", "stream", culprit)

\* s.source and s.sink are what Open and SetUserInput, SetUserOutput set
HasSource(s) == s.mode = "read"
HasSink(s) == s.mode \in {"write", "append"}

\* SetInput(streamOrAlias, k): current is e.input
SetInput(reg, heap, current, streamOrAlias) ==
    LET f == stream(reg, streamOrAlias)
    IN  CASE f.err # NoOptionErr -> [current |-> current, p |-> Error(f.err)]
          [] ~HasSource(heap[f.id]) ->
                [current |-> current, p |-> Error(permissionErrorInputStream(streamOrAlias))]
          [] OTHER -> [current |-> f.id, p |-> Delay(<<>>)]

\* SetOutput(streamOrAlias, k): current is e.output
SetOutput(reg, heap, current, streamOrAlias) ==
    LET f == stream(reg, streamOrAlias)
    IN  CASE f.err # NoOptionErr -> [current |-> current, p |-> Error(f.err)]
          [] ~HasSink(heap[f.id]) ->
                [current |-> current, p |-> Error(permissionErrorOutputStream(streamOrAlias))]
          [] OTHER -> [current |-> f.id, p |-> Delay(<<>>)]

\* SetUserInput(r), SetUserOutput(w): the stream made, registered under its
\* alias in place of what was there, and made the current one
SetUser(reg, heap, alias, mode) ==
    [reg |-> Put(reg, Atom(alias), Len(heap) + 1),
     heap |-> Append(heap, [ZeroStream EXCEPT !.alias = alias, !.mode = mode]),
     current |-> Len(heap) + 1]

NoByteResult ==
    [p |-> Bool(FALSE), again |-> FALSE, ok |-> FALSE, env |-> EmptyEnv, read |-> 0]
NoByteCall ==
    [set |-> FALSE, op |-> "", s |-> ZeroStream, bytes |-> <<>>, arg |-> Nil,
     inByte |-> Nil, buffered |-> FALSE, r |-> NoByteResult, peek |-> NoByteResult]

IInit ==
    /\ input = 0
    /\ output = 0
    /\ glast = NoByteCall

SetUserInput ==
    /\ scalls < MaxStreamCalls
    /\ LET r == SetUser(streams, sheap, "user_input", "read")
       IN  /\ streams' = r.reg
           /\ sheap' = r.heap
           /\ input' = r.current
           /\ slast' = [NoStreamCall EXCEPT !.op = "set_user_input", !.before = streams,
                                            !.p = Delay(<<>>)]
    /\ scalls' = scalls + 1
    /\ UNCHANGED <<output, glast, pvars, clast, ovars, fvars, uvars, dvars, evars>>

SetUserOutput ==
    /\ scalls < MaxStreamCalls
    /\ LET r == SetUser(streams, sheap, "user_output", "write")
       IN  /\ streams' = r.reg
           /\ sheap' = r.heap
           /\ output' = r.current
           /\ slast' = [NoStreamCall EXCEPT !.op = "set_user_output", !.before = streams,
                                            !.p = Delay(<<>>)]
    /\ scalls' = scalls + 1
    /\ UNCHANGED <<input, glast, pvars, clast, ovars, fvars, uvars, dvars, evars>>

CallSetInput ==
    /\ scalls < MaxStreamCalls
    /\ \E s \in StreamArgs(sheap) :
          LET r == SetInput(streams, sheap, input, s)
          IN  /\ input' = r.current
              /\ slast' = [NoStreamCall EXCEPT !.op = "set_input", !.arg = s,
                                               !.before = streams, !.p = r.p]
    /\ scalls' = scalls + 1
    /\ UNCHANGED <<streams, sheap, output, glast, pvars, clast, ovars, fvars, uvars, dvars,
                   evars>>

CallSetOutput ==
    /\ scalls < MaxStreamCalls
    /\ \E s \in StreamArgs(sheap) :
          LET r == SetOutput(streams, sheap, output, s)
          IN  /\ output' = r.current
              /\ slast' = [NoStreamCall EXCEPT !.op = "set_output", !.arg = s,
                                               !.before = streams, !.p = r.p]
    /\ scalls' = scalls + 1
    /\ UNCHANGED <<streams, sheap, input, glast, pvars, clast, ovars, fvars, uvars, dvars,
                   evars>>

INext ==
    \/ SetUserInput \/ SetUserOutput \/ CallOpen \/ CallClose \/ CallSetInput
    \/ CallSetOutput

(***************************************************************************)
(* GetByte and PeekByte (builtin.go).  bytes is what is left to read of    *)
(* the source of the stream, buffered whether the source is a bufio.Reader;*)
(* read is the number of bytes the call took from the source.              *)
(***************************************************************************)
permissionErrorInputTextStream(culprit) == PermissionError("input", "text_stream", culprit)
permissionErrorInputBufferedStream(culprit) ==
    PermissionError("input", "buffered_stream", culprit)
permissionErrorInputPastEndOfStream(culprit) ==
    PermissionError("input", "past_end_of_stream", culprit)
typeErrorInByte(culprit) == TypeError("in_byte", culprit)

\* what GetByte and PeekByte do with the byte read or with the end of the
\* source: the promise, the thunk it delays and the bindings that get to k
byteRead(s, bytes, streamOrAlias, inByte, taken) ==
    LET unified(u, n) ==
            [p |-> Delay(<<>>), again |-> FALSE, ok |-> u.p = "delay", env |-> u.env,
             read |-> n]
        err(e, n) ==
            [p |-> Error(e), again |-> FALSE, ok |-> FALSE, env |-> EmptyEnv, read |-> n]
    IN  CASE bytes # <<>> -> unified(Unify(inByte, Integer(bytes[1]), EmptyEnv), taken)
          [] s.eofAction = "error" ->
                err(permissionErrorInputPastEndOfStream(streamOrAlias), 0)
          [] s.eofAction = "eof_code" -> unified(Unify(inByte, Integer(-1), EmptyEnv), 0)
          [] s.eofAction = "reset" ->
                [p |-> Delay(<<>>), again |-> TRUE, ok |-> FALSE, env |-> EmptyEnv,
                 read |-> 0]
          [] OTHER -> err(SystemError("unknown EOF action"), 0)

\* GetByte(streamOrAlias, inByte, k): the Error made for an integer that is
\* no byte is not returned
GetByte(reg, heap, streamOrAlias, inByte, bytes) ==
    LET f == stream(reg, streamOrAlias)
        b == Resolve(inByte, EmptyEnv)
        err(e) ==
            [p |-> Error(e), again |-> FALSE, ok |-> FALSE, env |-> EmptyEnv, read |-> 0]
    IN  CASE f.err # NoOptionErr -> err(f.err)
          [] ~HasSource(heap[f.id]) -> err(permissionErrorInputStream(streamOrAlias))
          [] heap[f.id].streamType = "text" ->
                err(permissionErrorInputTextStream(streamOrAlias))
          [] b.k \notin {"var", "int"} -> err(typeErrorInByte(inByte))
          [] OTHER -> byteRead(heap[f.id], bytes, streamOrAlias, inByte, 1)

\* PeekByte(streamOrAlias, inByte, k)
PeekByte(reg, heap, streamOrAlias, inByte, bytes, buffered) ==
    LET f == stream(reg, streamOrAlias)
        b == Resolve(inByte, EmptyEnv)
        err(e) ==
            [p |-> Error(e), again |-> FALSE, ok |-> FALSE, env |-> EmptyEnv, read |-> 0]
    IN  CASE f.err # NoOptionErr -> err(f.err)
          [] ~HasSource(heap[f.id]) -> err(permissionErrorInputStream(streamOrAlias))
          [] heap[f.id].streamType = "text" ->
                err(permissionErrorInputTextStream(streamOrAlias))
          [] ~buffered -> err(permissionErrorInputBufferedStream(streamOrAlias))
          [] b.k = "int" /\ (b.id < 0 \/ b.id > 255) -> err(typeErrorInByte(inByte))
          [] b.k \notin {"var", "int"} -> err(typeErrorInByte(inByte))
          [] OTHER -> byteRead(heap[f.id], bytes, streamOrAlias, inByte, 0)

\* the calls made: the one stream of the engine, what is left of its
\* source, and the arguments
ByteStreams ==
    {[ZeroStream EXCEPT !.mode = m, !.streamType = t, !.eofAction = a] :
        m \in {"read", "write"}, t \in {"binary", "text"},
        a \in {"error", "eof_code", "reset"}}
ByteSources == {<<>>, <<65>>, <<0, 255>>}
ByteStreamArgs == {Stream(1), Atom("a"), Var(1)}
InByteArgs ==
    {Var(2), Integer(0), Integer(65), Integer(255), Integer(256), Integer(-1), Atom("a")}

\* GetByte and PeekByte depend on nothing done before: one call in a
\* behaviour, GetByte and PeekByte of the same arguments side by side
CallGetByte ==
    /\ ~glast.set
    /\ \E s \in ByteStreams, bytes \in ByteSources, streamOrAlias \in ByteStreamArgs,
          inByte \in InByteArgs :
          LET called(reg, heap) ==
                  glast' = [set |-> TRUE, op |-> "get_byte", s |-> s, bytes |-> bytes,
                            arg |-> streamOrAlias, inByte |-> inByte, buffered |-> TRUE,
                            r |-> GetByte(reg, heap, streamOrAlias, inByte, bytes),
                            peek |-> PeekByte(reg, heap, streamOrAlias, inByte, bytes, TRUE)]
          IN  called(Put([x \in {} |-> 0], Stream(1), 1), <<s>>)
    /\ UNCHANGED <<input, output, svars, pvars, clast, ovars, fvars, uvars, dvars, evars>>

CallPeekByte ==
    /\ ~glast.set
    /\ \E s \in ByteStreams, bytes \in ByteSources, streamOrAlias \in ByteStreamArgs,
          inByte \in InByteArgs, buffered \in BOOLEAN :
          LET called(reg, heap) ==
                  glast' = [set |-> TRUE, op |-> "peek_byte", s |-> s, bytes |-> bytes,
                            arg |-> streamOrAlias, inByte |-> inByte,
                            buffered |-> buffered,
                            r |-> PeekByte(reg, heap, streamOrAlias, inByte, bytes,
                                           buffered),
                            peek |-> PeekByte(reg, heap, streamOrAlias, inByte, bytes,
                                              buffered)]
          IN  called(Put([x \in {} |-> 0], Stream(1), 1), <<s>>)
    /\ UNCHANGED <<input, output, svars, pvars, clast, ovars, fvars, uvars, dvars, evars>>

GNext == CallGetByte \/ CallPeekByte

Init ==
    /\ UInit /\ DbInit /\ EInit /\ CInit /\ OInit /\ FInit /\ SInit /\ BInit /\ AInit
    /\ KInit /\ IInit

Spec == Init /\ [][Next]_vars

SpecCompare == Init /\ [][CallCompare]_vars

SpecOp == Init /\ [][CallOp]_vars

SpecFlags == Init /\ [][FNext]_vars

SpecStreams == Init /\ [][SNext]_vars

SpecBagof == Init /\ [][CallCollectionOf]_vars

SpecArg == Init /\ [][CallArg]_vars

SpecCompile == Init /\ [][KNext]_vars

SpecCurrent == Init /\ [][INext]_vars

SpecBytes == Init /\ [][GNext]_vars

SpecOperands == Init /\ [][CallCompileArg]_vars

SpecDb == Init /\ [][DbNext]_vars

SpecUnify == Init /\ [][UNext]_vars

(***************************************************************************)
(* Properties of the engine.                                               *)
(***************************************************************************)
\* whether s is the beginning of t
IsPrefix(s, t) == Len(s) <= Len(t) /\ SubSeq(t, 1, Len(s)) = s

\* whether a query is running or has run
Queried == phase \in {"run", "done"}

\* the clauses of the procedure the queried goal names, in table order
GoalClauses ==
    IF <<qgoal.name, Len(qgoal.args)>> \in DOMAIN vm.procedures
    THEN vm.procedures[<<qgoal.name, Len(qgoal.args)>>].cs
    ELSE <<>>

\* whether all of them are facts
FactsOnly ==
    /\ GoalClauses # <<>>
    /\ \A n \in DOMAIN GoalClauses :
          GoalClauses[n].raw.k = "cmp" /\ GoalClauses[n].raw.name # atomIf

\* the facts that unify with the queried goal, in table order
MatchingFacts ==
    LET matches(c) == TermUnify(c.raw, qgoal, FALSE, EmptyEnv).ok
        raws(cs) == [n \in DOMAIN cs |-> cs[n].raw]
    IN  raws(SelectSeq(GoalClauses, matches))

\* C1: the solutions of a call come in the order of the clauses that
\* produce them: the clause of a later solution is never before the clause
\* of an earlier one in the clause list, and when the clauses are facts the
\* solutions are, one by one and at the end all of them, the facts that
\* unify with the goal in the order of the list (assertz at the end,
\* asserta at the front).
C1_SolutionsInClauseOrder ==
    Queried =>
       /\ Len(vm.origins) = Len(vm.solutions)
       /\ \A n \in DOMAIN vm.origins : vm.origins[n] \in DOMAIN GoalClauses
       /\ \A n, o \in DOMAIN vm.origins : n < o => vm.origins[n] <= vm.origins[o]
       /\ FactsOnly =>
             /\ IsPrefix(vm.solutions, MatchingFacts)
             /\ \A n, o \in DOMAIN vm.origins : n < o => vm.origins[n] < vm.origins[o]
             /\ \A n \in DOMAIN vm.origins :
                   GoalClauses[vm.origins[n]].raw = vm.solutions[n]
             /\ phase = "done" => vm.solutions = MatchingFacts

\* p(X) has run to the end on the clauses left by asserta(p(1)),
\* assertz(p(2)), asserta(p(3)), assertz(p(1))
C1_Witness ==
    /\ phase = "done"
    /\ qgoal = Compound("p", <<QX>>)
    /\ vm.solutions = <<Fact("p", 3), Fact("p", 1), Fact("p", 2), Fact("p", 1)>>
    /\ vm.origins = <<1, 2, 3, 4>>

\* the promises with untried alternatives on the stacks of the Forces in fs
Alts(fs) ==
    UNION {{fs[d].stack[n] : n \in {o \in DOMAIN fs[d].stack : fs[d].stack[o].delayed # <<>>}}
           : d \in DOMAIN fs}

\* C2: after a cut with barrier b (the promise of the clauses of the call
\* the cut's clause belongs to) no promise made since that call began still
\* has an untried alternative: not b with the clauses not yet tried, not
\* the goals before the cut; and the promises made before the call have
\* the alternatives they had.
C2_CutScope ==
    lastCut.cut # 0 =>
       /\ \A a \in Alts(frames) : ~(lastCut.barrier <= a.id /\ a.id <= lastCut.cut)
       /\ {a \in Alts(frames) : a.id < lastCut.barrier}
             = {a \in Alts(lastCut.before) : a.id < lastCut.barrier}

\* the program p(1). p(2). p(3). q(X, Y) :- p(X), !, p(Y). and the query
\* q(X, Y)
CutQuery ==
    /\ Queried
    /\ qgoal = Compound("q", <<QX, QY>>)
    /\ DOMAIN vm.procedures = Builtins \cup {<<"p", 1>>, <<"q", 2>>}
    /\ [n \in DOMAIN vm.procedures[<<"p", 1>>].cs |-> vm.procedures[<<"p", 1>>].cs[n].raw]
          = <<Fact("p", 1), Fact("p", 2), Fact("p", 3)>>
    /\ [n \in DOMAIN vm.procedures[<<"q", 2>>].cs |-> vm.procedures[<<"q", 2>>].cs[n].raw]
          = <<Rule(Compound("q", <<X, Y>>),
                   Conj(Compound("p", <<X>>), Conj(Atom(atomCut), Compound("p", <<Y>>))))>>

\* the solutions X=1,Y=1 then X=1,Y=2 then X=1,Y=3
CutQuerySolutions ==
    [n \in 1..3 |-> Compound("q", <<Integer(1), Integer(n)>>)]

\* C3: with p(1). p(2). p(3). the goals p(X), !, p(Y) have exactly the
\* solutions X=1,Y=1 then X=1,Y=2 then X=1,Y=3: at every moment the
\* solutions so far are the beginning of that list, and at the end they are
\* the list.
C3_CutKeepsLaterGoals ==
    CutQuery =>
       /\ IsPrefix(vm.solutions, CutQuerySolutions)
       /\ phase = "done" =>
             /\ vm.solutions = CutQuerySolutions
             /\ outcome.err = NoErr

C3_Witness ==
    /\ CutQuery
    /\ phase = "done"
    /\ Len(vm.solutions) = 3

\* whether the last step was a cut run by a Force that Call started, with
\* the barrier of the cut on the stack of that Force: a cut inside the goal
\* given to Call
CutInsideCall ==
    /\ lastCut.depth >= 2
    /\ \E n \in DOMAIN lastCut.before[lastCut.depth].stack :
          lastCut.before[lastCut.depth].stack[n].id = lastCut.barrier

\* C4: a cut inside the goal given to Call leaves the stacks of the Forces
\* outside of Call as they were, so every alternative the caller had open
\* is still there; and Call hands its caller a promise that is settled,
\* with no barrier and no alternative of the called goal in it.
C4_CutInsideCallIsLocal ==
    /\ lastCut.depth >= 2 =>
          /\ Len(frames) >= lastCut.depth - 1
          /\ \A d \in 1..(lastCut.depth - 1) : frames[d] = lastCut.before[d]
    /\ lastCall.t \in {"bool", "error"}

\* a cut has run inside the goal given to Call while the caller had
\* alternatives open
C4_Witness ==
    /\ CutInsideCall
    /\ Alts(SubSeq(lastCut.before, 1, lastCut.depth - 1)) # {}
    /\ Alts(SubSeq(frames, 1, lastCut.depth - 1))
          = Alts(SubSeq(lastCut.before, 1, lastCut.depth - 1))

\* the variables stored in the compiled clauses of the procedure table
StoredVars ==
    UNION {UNION {{vm.procedures[pi].cs[n].vars[o] : o \in DOMAIN vm.procedures[pi].cs[n].vars}
                  : n \in DOMAIN vm.procedures[pi].cs}
           : pi \in DOMAIN vm.procedures}

\* C5: every activation of a clause has one variable per slot of the
\* clause's vars, these variables differ from each other, from the
\* variables of every other activation and from the variables stored in
\* the compiled clauses, and no stored variable is ever bound in an
\* environment handed to a continuation.
C5_FreshVariablesPerActivation ==
    /\ \A n \in DOMAIN vm.acts :
          /\ Len(vm.acts[n].vars) = vm.acts[n].slots
          /\ \A o, q \in DOMAIN vm.acts[n].vars :
                o # q => vm.acts[n].vars[o] # vm.acts[n].vars[q]
          /\ \A o \in DOMAIN vm.acts[n].vars : vm.acts[n].vars[o] \notin StoredVars
    /\ \A n, o \in DOMAIN vm.acts :
          n # o => \A q \in DOMAIN vm.acts[n].vars, w \in DOMAIN vm.acts[o].vars :
                      vm.acts[n].vars[q] # vm.acts[o].vars[w]
    /\ \A v \in StoredVars : v.id \notin vm.bound

\* one clause with variables has been activated twice, another clause with
\* variables too, and variables have been bound
C5_Witness ==
    /\ phase = "done"
    /\ \E n, o \in DOMAIN vm.acts :
          /\ n < o
          /\ vm.acts[n].pi = vm.acts[o].pi
          /\ vm.acts[n].i = vm.acts[o].i
          /\ vm.acts[n].slots >= 1
    /\ \E n, o \in DOMAIN vm.acts : vm.acts[n].pi # vm.acts[o].pi /\ vm.acts[o].slots >= 2
    /\ vm.bound # {}

\* C6: an arrival at a procedure indicator without entry in the table gives,
\* by the unknown flag: error, the existence error of the procedure
\* Name/Arity and no warning; warning, one call of the warning callback,
\* for this indicator, and failure; fail, failure and no warning; and in
\* all three no continuation is invoked and the table is as it was.
C6_UnknownProcedurePolicy ==
    vm.lastUnknown.pi # NoUnknown.pi =>
       /\ vm.lastUnknown.unknown \in {"error", "warning", "fail"}
       /\ vm.lastUnknown.unknown = "error" =>
             /\ vm.lastUnknown.p =
                   Error(ExistenceError("procedure",
                                        Compound("/", <<Atom(vm.lastUnknown.pi[1]),
                                                        Integer(vm.lastUnknown.pi[2])>>)))
             /\ vm.lastUnknown.warnings = <<>>
       /\ vm.lastUnknown.unknown = "warning" =>
             /\ vm.lastUnknown.p = Bool(FALSE)
             /\ vm.lastUnknown.warnings = <<vm.lastUnknown.pi>>
       /\ vm.lastUnknown.unknown = "fail" =>
             /\ vm.lastUnknown.p = Bool(FALSE)
             /\ vm.lastUnknown.warnings = <<>>
       /\ vm.lastUnknown.kcalls = 0
       /\ vm.lastUnknown.unchanged
       /\ vm.lastUnknown.pi \notin DOMAIN vm.procedures

\* u/1, without entry, was called from the body of g/1 under the flag
\* unknown = warning
C6_Witness ==
    /\ vm.lastUnknown.pi = <<"u", 1>>
    /\ vm.lastUnknown.unknown = "warning"
    /\ vm.unknown = "warning"
    /\ vm.warnings = <<<<"u", 1>>>>
    /\ qgoal = Compound("g", <<QX>>)
    /\ phase = "done"

(***************************************************************************)
(* Properties of Retract and Abolish.                                      *)
(***************************************************************************)
\* the last operation was a Retract that reached the scan of a clause list
RetractScanned ==
    /\ dlast.op = "retract"
    /\ TargetKey(dlast.op, dlast.arg) \in DOMAIN dlast.before
    /\ dlast.before[TargetKey(dlast.op, dlast.arg)].kind = "clauses"

\* the clause list the last operation was about, before and after it
OldClauses == ClausesOf(dlast.before, TargetKey(dlast.op, dlast.arg))
NewClauses == ClausesOf(dprocs, TargetKey(dlast.op, dlast.arg))

\* the places in OldClauses of the clauses that unify with the argument of
\* the last Retract, and those of them on which the continuation was forced
OldMatching == Matching(OldClauses, dlast.arg)
Forcings == {OldMatching[j] : j \in 1..dlast.kcalls}

NoClauseLeft(before, after) ==
    \A q \in DOMAIN before :
       /\ q \in DOMAIN after
       /\ \A i \in DOMAIN before[q].cs : \E j \in DOMAIN after[q].cs :
             after[q].cs[j] = before[q].cs[i]

C13_RetractResumesAfterRemoved ==
    RetractScanned =>
        /\ dlast.kcalls <= Len(OldMatching)
        /\ dlast.tried = SubSeq(OldMatching, 1, dlast.kcalls)
        /\ \A j \in 1..(dlast.kcalls - 1) :
              /\ dlast.outs[j] = "false"
              /\ dlast.tried[j] < dlast.tried[j + 1]
        /\ Len(dlast.outs) = dlast.kcalls
        /\ dlast.kcalls < Len(OldMatching) =>
              dlast.kcalls >= 1 /\ dlast.outs[dlast.kcalls] # "false"
        /\ dlast.kcalls >= 1 =>
              dlast.p = CASE dlast.outs[dlast.kcalls] = "true" -> Bool(TRUE)
                          [] dlast.outs[dlast.kcalls] = "error" -> Error(Atom("k"))
                          [] OTHER -> Bool(FALSE)
        /\ NewClauses = Without(OldClauses, {dlast.tried[j] : j \in DOMAIN dlast.tried})

\* the continuation failed on the first clause, the retract went on to the
\* second, succeeded there, and both are removed
C13_Witness ==
    /\ RetractScanned
    /\ dlast.tried = <<1, 2>>
    /\ dlast.outs[1] = "false"
    /\ dlast.outs[2] = "true"
    /\ dlast.p = Bool(TRUE)
    /\ NewClauses = <<>>

\* the last operation asserted a directive :- G
DirectiveAsserted ==
    /\ dlast.op \in {"assertz", "asserta"}
    /\ dlast.arg.k = "cmp"
    /\ dlast.arg.name = atomIf
    /\ Len(dlast.arg.args) = 1

\* C14: assertz and asserta of :- G store nothing, the table is the one
\* before and has no entry for ':-'/1, and they return the promise that
\* dispatches G, by its name and arity on its arguments, with the
\* continuation they were given; a G that is not callable gives an error.
C14_DirectiveIsRunNotStored ==
    DirectiveAsserted =>
        /\ dprocs = dlast.before
        /\ <<atomIf, 1>> \notin DOMAIN dprocs
        /\ dlast.arg.args[1].k = "cmp" =>
              dlast.p = Delay(<<[t |-> "arrive",
                                 pi |-> <<dlast.arg.args[1].name,
                                          Len(dlast.arg.args[1].args)>>,
                                 args |-> List(dlast.arg.args[1].args),
                                 k |-> Success, env |-> EmptyEnv]>>)
        /\ dlast.arg.args[1].k \notin {"cmp", "atom"} => dlast.p.t = "error"

\* :- q(1) was asserted on a table that holds clauses of q/1
C14_Witness ==
    /\ DirectiveAsserted
    /\ dlast.op = "assertz"
    /\ dlast.arg.args[1] = Q(Integer(1))
    /\ <<"q", 1>> \in DOMAIN dprocs
    /\ dprocs[<<"q", 1>>].cs # <<>>

\* the last operation was an Abolish that succeeded
AbolishSucceeded ==
    /\ dlast.op = "abolish"
    /\ dlast.p = Delay(<<[t |-> "k", k |-> Success, env |-> EmptyEnv]>>)

\* C15: after abolish(N/A) has succeeded, which it does on clause lists
\* only, the table has no entry for N/A, a call of N/A arrives at no
\* procedure and gets the outcome of the unknown flag, and every other
\* entry is as it was; after assertz, asserta and retract, and after an
\* abolish that did not succeed, every entry of the table is still there.
C15_AbolishDeletesEntry ==
    /\ AbolishSucceeded =>
          /\ TargetKey(dlast.op, dlast.arg) \in DOMAIN dlast.before
          /\ dlast.before[TargetKey(dlast.op, dlast.arg)].kind = "clauses"
          /\ TargetKey(dlast.op, dlast.arg) \notin DOMAIN dprocs
          /\ DOMAIN dprocs = DOMAIN dlast.before \ {TargetKey(dlast.op, dlast.arg)}
          /\ \A q \in DOMAIN dprocs : dprocs[q] = dlast.before[q]
          /\ arrive([NewMachine EXCEPT !.procedures = dprocs],
                    TargetKey(dlast.op, dlast.arg), Nil, Success, EmptyEnv).p
                = Error(ExistenceError("procedure", piTerm(TargetKey(dlast.op, dlast.arg))))
          /\ arrive([NewMachine EXCEPT !.procedures = dprocs, !.unknown = "fail"],
                    TargetKey(dlast.op, dlast.arg), Nil, Success, EmptyEnv).p = Bool(FALSE)
    /\ ~AbolishSucceeded => DOMAIN dlast.before \subseteq DOMAIN dprocs

\* p/1 was abolished while q/1 had clauses
C15_Witness ==
    /\ AbolishSucceeded
    /\ dlast.arg = piTerm(<<"p", 1>>)
    /\ dlast.before[<<"p", 1>>].cs # <<>>
    /\ <<"q", 1>> \in DOMAIN dprocs
    /\ dprocs[<<"q", 1>>].cs # <<>>

(***************************************************************************)
(* Properties of the database in a run.                                    *)
(***************************************************************************)
\* the clause terms of the procedure key in the table of the run
Raws(key) ==
    IF key \in DOMAIN vm.procedures
    THEN [n \in DOMAIN vm.procedures[key].cs |-> vm.procedures[key].cs[n].raw]
    ELSE <<>>

\* whether the step of Force to come runs the call of a builtin of names
RunsBuiltin(names) ==
    /\ phase = "run"
    /\ Top.delayed # <<>>
    /\ Top.delayed[1].t = "pcall"
    /\ Top.delayed[1].p.kind = "builtin"
    /\ Top.delayed[1].p.name \in names

\* whether the step of Force to come returns to the loop of Retract
ReturnsToRetract ==
    /\ phase = "run"
    /\ Top.delayed = <<>>
    /\ frames[Len(frames)].ret = "Retract"

\* whether the table after is the table before with one clause more
AddedOneClause(before, after) ==
    /\ NoClauseLeft(before, after)
    /\ \E key \in DOMAIN after :
          /\ Len(after[key].cs) = 1 + (IF key \in DOMAIN before THEN Len(before[key].cs) ELSE 0)
          /\ \A q \in DOMAIN after \ {key} : q \in DOMAIN before /\ after[q] = before[q]

\* C16: a change of the database made in a run stays.  The table changes
\* only in the step that runs assertz or asserta, by the one clause added,
\* and in a step of retract, by clauses removed; every other step, and so
\* every step in which a continuation fails and the search goes back to an
\* earlier alternative, leaves the table as it is.  With a(1). a(2). and
\* w(X) :- a(X), assertz(m(X)), asserta(n(X)), a(3). the clauses asserted
\* under X = 1 are there when X = 2 is tried and at the end; with m(1).
\* m(2). and r(X) :- a(X), retract(m(X)), a(3). both removals stay.
C16_DatabaseChangesStay ==
    /\ [](phase = "done" /\ qgoal = Compound("w", <<QX>>) =>
             /\ Raws(<<"m", 1>>) = <<Fact("m", 1), Fact("m", 2)>>
             /\ Raws(<<"n", 1>>) = <<Fact("n", 2), Fact("n", 1)>>
             /\ vm.solutions = <<Fact("w", 0)>>)
    /\ [](phase = "done" /\ qgoal = Compound("r", <<QX>>) =>
             /\ <<"m", 1>> \in DOMAIN vm.procedures
             /\ Raws(<<"m", 1>>) = <<>>
             /\ vm.solutions = <<Fact("r", 0)>>)
    /\ [][phase = "run" =>
             \/ vm'.procedures = vm.procedures
             \/ /\ RunsBuiltin({"assertz", "asserta"})
                /\ AddedOneClause(vm.procedures, vm'.procedures)
             \/ /\ RunsBuiltin({"retract"}) \/ ReturnsToRetract
                /\ DOMAIN vm'.procedures = DOMAIN vm.procedures
                /\ NoClauseLeft(vm'.procedures, vm.procedures)]_vars

\* m(1) and n(1), asserted under X = 1, are in the table while the search,
\* after a(3) has failed, is back at the second clause of a/1
C16_Witness ==
    /\ phase = "run"
    /\ qgoal = Compound("w", <<QX>>)
    /\ Raws(<<"m", 1>>) = <<Fact("m", 1)>>
    /\ Raws(<<"n", 1>>) = <<Fact("n", 1)>>
    /\ Cardinality({n \in DOMAIN vm.acts :
                       vm.acts[n].pi = <<"a", 1>> /\ vm.acts[n].i = 2}) = 2

(***************************************************************************)
(* Properties of Catch and Throw.                                          *)
(***************************************************************************)
\* whether a clause of the procedure key was activated in the run
Activated(key) == \E x \in DOMAIN vm.acts : vm.acts[x].pi = key

\* the run of the goal name(QX) has ended
Ended(name) == phase = "done" /\ qgoal = Compound(name, <<QX>>)

\* C17: when the forced goal of Catch raised an exception whose term unifies
\* with the catcher, Catch returns the call of the recovery with its own
\* continuation, under bindings that make the catcher that term; when the
\* term does not unify, Catch returns the same error and the recovery is
\* not run; without an exception Catch returns what the goal followed by
\* the continuation returned.  So catch(throw(oops), E, ok(E)) has the one
\* solution E = oops, catch(throw(oops), other, ok(E)) ends with the error
\* oops, and catch(a(X), Y, ok(X)) has the solutions of a(X).
C17_CatchRecoversFromMatchingThrow ==
    /\ vm.lastCatch.set =>
          LET c == vm.lastCatch
              matches == c.err \notin GoErrors /\
                         TermUnify(c.ca.catcher, c.err, FALSE, c.ca.env).ok
          IN  CASE c.err # NoErr /\ matches ->
                       /\ c.p.t = "delay"
                       /\ Len(c.p.ks) = 1
                       /\ c.p.ks[1].t = "call"
                       /\ c.p.ks[1].goal = c.ca.recover
                       /\ c.p.ks[1].k = c.ca.k
                       /\ Unfold(c.ca.catcher, c.p.ks[1].env, MaxDepth) =
                             Unfold(c.err, c.p.ks[1].env, MaxDepth)
                [] c.err # NoErr /\ ~matches -> c.p = Error(c.err)
                [] OTHER -> c.p = Bool(c.ok)
    /\ Ended("h") =>
          /\ vm.solutions = <<Compound("h", <<Atom("oops")>>)>>
          /\ outcome.err = NoErr
          /\ Activated(<<"ok", 1>>)
    /\ Ended("i") =>
          /\ vm.solutions = <<>>
          /\ outcome.err = Atom("oops")
          /\ ~Activated(<<"ok", 1>>)
    /\ Ended("j") =>
          /\ vm.solutions = <<Compound("j", <<Integer(1)>>), Compound("j", <<Integer(2)>>)>>
          /\ outcome.err = NoErr
          /\ ~Activated(<<"ok", 1>>)

C17_Witness ==
    /\ Ended("h")
    /\ vm.lastCatch.set
    /\ vm.lastCatch.err = Atom("oops")
    /\ vm.solutions # <<>>

(***************************************************************************)
(* Properties of exec.                                                     *)
(***************************************************************************)
\* the thunk that Force runs next is the clause with the unknown opcode
AtUnknownOpcode ==
    /\ phase = "run"
    /\ Top.delayed # <<>>
    /\ Top.delayed[1].t = "clause"
    /\ Top.delayed[1].c = UnknownOpcodeClause

\* C18: exec on an instruction without handler returns the system error
\* that names the opcode, and nothing after the instruction is run: no
\* continuation is invoked, no clause other than the one exec is in is
\* activated, the table is as it was, and the run of z(X) ends with that
\* error and without a solution, though a(X) has two.
C18_UnknownOpcodeIsSystemError ==
    /\ AtUnknownOpcode =>
          LET ran(r) ==
                 /\ r.p = Error(SystemError("unknown opcode: 255"))
                 /\ r.m.kcalls = vm.kcalls
                 /\ r.m.solutions = vm.solutions
                 /\ r.m.procedures = vm.procedures
                 /\ r.m.acts = Append(vm.acts, r.m.acts[Len(r.m.acts)])
                 /\ r.m.acts[Len(r.m.acts)].pi = <<"z", 1>>
          IN  ran(Run(vm, Top.delayed[1]))
    /\ Ended("z") =>
          /\ outcome.err = SystemError("unknown opcode: 255")
          /\ ~outcome.ok
          /\ vm.solutions = <<>>
          /\ vm.kcalls = 0
          /\ ~Activated(<<"a", 1>>)

C18_Witness ==
    /\ Ended("z")
    /\ Activated(<<"z", 1>>)
    /\ outcome.err # NoErr

(***************************************************************************)
(* Properties of the standard order.                                       *)
(***************************************************************************)
\* the place of the kind of a term in Var < Number < Atom < Compound
KindRank(t) ==
    CASE t.k = "var" -> 0
      [] t.k \in {"int", "float"} -> 1
      [] t.k = "atom" -> 2
      [] OTHER -> 3

\* the first place where the argument lists differ, 0 when they are equal
RECURSIVE FirstDiffering(_, _, _)
FirstDiffering(as, bs, i) ==
    IF i > Len(as) THEN 0
    ELSE IF as[i] # bs[i] THEN i
    ELSE FirstDiffering(as, bs, i + 1)

\* C19: terms of different kinds compare as Var < Number < Atom < Compound
\* in both argument orders; two compounds compare by arity, with equal
\* arity by functor name, and with equal name as their first differing
\* pair of arguments compares.
C19_StandardOrderOfKindsAndCompounds ==
    clast.set =>
       LET a == clast.term1
           b == clast.term2
           byArgs(i) ==
              IF i = 0 THEN clast.d = 0
              ELSE /\ clast.d # 0
                   /\ Sign(clast.d) = Sign(compare(a.args[i], b.args[i], clast.build))
       IN  /\ KindRank(a) < KindRank(b) => clast.d < 0
           /\ KindRank(a) > KindRank(b) => clast.d > 0
           /\ (a.k = "cmp" /\ b.k = "cmp") =>
                 CASE Len(a.args) # Len(b.args) ->
                          Sign(clast.d) = Sign(Len(a.args) - Len(b.args))
                   [] StringsCompare(a.name, b.name) # 0 ->
                          Sign(clast.d) = StringsCompare(a.name, b.name)
                   [] OTHER -> byArgs(FirstDiffering(a.args, b.args, 1))

\* twice the value of a number
TwiceValue(t) == IF t.k = "int" THEN 2 * t.id ELSE t.id

\* C20: two numbers compare as their values do, and an Integer and a Float
\* of the same value compare with the Integer first: compare(I, F) is
\* negative and compare(F, I) positive.
C20_NumbersByValueIntegerFirst ==
    (clast.set /\ KindRank(clast.term1) = 1 /\ KindRank(clast.term2) = 1) =>
       LET a == clast.term1
           b == clast.term2
       IN  CASE TwiceValue(a) # TwiceValue(b) ->
                    Sign(clast.d) = Sign(TwiceValue(a) - TwiceValue(b))
             [] a.k = "int" /\ b.k = "float" -> clast.d < 0
             [] a.k = "float" /\ b.k = "int" -> clast.d > 0
             [] OTHER -> clast.d = 0

\* whether a float occurs in t
RECURSIVE HasFloat(_)
HasFloat(t) == t.k = "float" \/ (t.k = "cmp" /\ \E i \in DOMAIN t.args : HasFloat(t.args[i]))

\* the order of kinds and of compounds holds of terms without floats
OrderHoldsWithoutFloats ==
    (clast.set /\ ~HasFloat(clast.term1) /\ ~HasFloat(clast.term2)) =>
       C19_StandardOrderOfKindsAndCompounds

\* two numbers whose difference is whole and within the width compare as
\* their values do, and of an Integer and a Float of the same value the
\* Float comes first
TieIsFloatFirst ==
    LET small(t) == t.k = "float" \/ t.id \in -2..2
        whole(a, b) == (TwiceValue(a) - TwiceValue(b)) % 2 = 0
        on(a, b) ==
            (KindRank(a) = 1 /\ KindRank(b) = 1 /\ small(a) /\ small(b) /\ whole(a, b)) =>
               CASE TwiceValue(a) # TwiceValue(b) ->
                        Sign(clast.d) = Sign(TwiceValue(a) - TwiceValue(b))
                 [] a.k = "int" /\ b.k = "float" -> clast.d > 0
                 [] a.k = "float" /\ b.k = "int" -> clast.d < 0
                 [] OTHER -> clast.d = 0
    IN  clast.set => on(clast.term1, clast.term2)

\* C21: compare is a total order: compare(a, b) and compare(b, a) have
\* opposite signs, a before or equal b and b before or equal c give a
\* before or equal c, and two Integers compare as their numbers do over the
\* whole width, where a - b overflows as well.
C21_CompareIsTotalOrder ==
    clast.set =>
       LET a == clast.term1
           b == clast.term2
           le(x, y) == compare(x, y, clast.build) <= 0
       IN  /\ Sign(clast.d) = -Sign(compare(b, a, clast.build))
           /\ \A c \in CompareTerms : (le(a, b) /\ le(b, c)) => le(a, c)
           /\ (a.k = "int" /\ b.k = "int") => Sign(clast.d) = Sign(a.id - b.id)

\* the order is total on terms whose numbers are Integers less than the
\* width apart
TotalOnNearIntegers ==
    LET RECURSIVE near(_)
        near(t) == CASE t.k = "float" -> FALSE
                     [] t.k = "int" -> t.id \in -2..2
                     [] t.k = "cmp" -> \A i \in DOMAIN t.args : near(t.args[i])
                     [] OTHER -> TRUE
        le(x, y) == compare(x, y, clast.build) <= 0
        on(a, b) ==
            /\ Sign(clast.d) = -Sign(compare(b, a, clast.build))
            /\ \A c \in CompareTerms : (near(c) /\ le(a, b) /\ le(b, c)) => le(a, c)
            /\ (a.k = "int" /\ b.k = "int") => Sign(clast.d) = Sign(a.id - b.id)
    IN  (clast.set /\ near(clast.term1) /\ near(clast.term2)) =>
           on(clast.term1, clast.term2)

(***************************************************************************)
(* Properties of Op.                                                       *)
(***************************************************************************)
\* the entries of ops for the specifier and the name
EntriesFor(ops, s, o) ==
    {i \in DOMAIN ops : ops[i].specifier = s /\ ops[i].name = o}

\* ops without the entries for the specifier and the name
RECURSIVE OthersOf(_, _, _)
OthersOf(ops, s, o) ==
    IF ops = <<>> THEN <<>>
    ELSE IF Head(ops).specifier = s /\ Head(ops).name = o THEN OthersOf(Tail(ops), s, o)
    ELSE <<Head(ops)>> \o OthersOf(Tail(ops), s, o)

OpSucceeded == olast.set /\ olast.p.t = "delay"

\* C22: after Op with priority 0 has succeeded the table has no entry for
\* the specifier and the name, whether it had one before or not; after Op
\* with a priority in 1..1200 has succeeded the table has the one entry of
\* that priority for them, and the other entries as before.
C22_OpZeroRemovesOperator ==
    OpSucceeded =>
       LET s == olast.specifier.name
           o == olast.operator.name
       IN  /\ olast.priority.id = 0 => EntriesFor(operators, s, o) = {}
           /\ olast.priority.id > 0 =>
                 /\ \E i \in DOMAIN operators :
                       /\ EntriesFor(operators, s, o) = {i}
                       /\ operators[i].priority = olast.priority.id
                 /\ OthersOf(operators, s, o) = OthersOf(olast.before, s, o)

\* Op with priority 0 removes the entry that is there, and Op with a
\* priority in 1..1200 replaces it
OpReplacesEntry ==
    OpSucceeded =>
       LET s == olast.specifier.name
           o == olast.operator.name
       IN  /\ (olast.priority.id = 0 /\ EntriesFor(olast.before, s, o) # {}) =>
                 EntriesFor(operators, s, o) = {}
           /\ olast.priority.id > 0 =>
                 /\ \E i \in DOMAIN operators :
                       /\ EntriesFor(operators, s, o) = {i}
                       /\ operators[i].priority = olast.priority.id
                 /\ OthersOf(operators, s, o) = OthersOf(olast.before, s, o)
           /\ \A i \in 1..(Len(operators) - 1) :
                 operators[i].priority <= operators[i + 1].priority

(***************************************************************************)
(* Properties of the flags.                                                *)
(***************************************************************************)
ReadOnlyFlags ==
    {"bounded", "max_integer", "min_integer", "integer_rounding_function", "max_arity"}

\* the values a writable flag takes
FlagDomain(name) ==
    IF name = "unknown" THEN {"error", "warning", "fail"} ELSE {"on", "off"}

\* what CurrentPrologFlag has to report for a flag
FlagValue(name) ==
    CASE name = "bounded" -> Atom("true")
      [] name = "max_integer" -> Integer(MaxInt)
      [] name = "min_integer" -> Integer(MinInt)
      [] name = "integer_rounding_function" -> Atom("toward_zero")
      [] name = "max_arity" -> Atom("unbounded")
      [] OTHER -> fset[name]

\* C23: SetPrologFlag succeeds and changes the state exactly for
\* char_conversion and debug set to on or off and unknown set to error,
\* warning or fail; a read-only flag gives a permission error, any other
\* value of a writable flag a domain error (an unbound one an instantiation
\* error), and after every error the state is as before.
\* CurrentPrologFlag of a flag with an unbound value reports one value: the
\* one last set with success, or the fixed one.
C23_FlagsChangeOnlyWhenValid ==
    /\ flast.op = "set" =>
          LET f == flast.flag
              a == flast.value
              writable == f.k = "atom" /\ f.name \in {"char_conversion", "debug", "unknown"}
              valid == writable /\ a.k = "atom" /\ a.name \in FlagDomain(f.name)
          IN  /\ valid <=> flast.p.t = "delay"
              /\ ~valid => fstate = flast.before
              /\ valid =>
                    fstate = CASE f.name = "unknown" -> [flast.before EXCEPT !.unknown = a.name]
                               [] f.name = "debug" ->
                                     [flast.before EXCEPT !.debug = (a.name = "on")]
                               [] OTHER ->
                                     [flast.before EXCEPT !.charConvEnabled = (a.name = "on")]
              /\ (f.k = "atom" /\ f.name \in ReadOnlyFlags) =>
                    flast.p = Error(PermissionError("modify", "flag", f))
              /\ (writable /\ ~valid) =>
                    flast.p = IF a.k = "var" THEN Error(InstantiationError)
                              ELSE Error(DomainError("flag_value", Compound("+", <<f, a>>)))
    /\ (flast.op = "current" /\ flast.flag.k = "atom" /\ flast.flag.name \in PrologFlags
        /\ flast.value.k = "var") =>
          /\ flast.p.t = "delay"
          /\ Len(flast.solutions) = 1
          /\ Resolve(flast.value, flast.solutions[1]) = FlagValue(flast.flag.name)

C23_Witness ==
    /\ flast.op = "current"
    /\ flast.flag = Atom("unknown")
    /\ flast.value.k = "var"
    /\ fset.unknown = Atom("fail")
    /\ fset.debug = Atom("on")
    /\ fcalls = MaxFlagCalls

(***************************************************************************)
(* The stream registry.                                                    *)
(***************************************************************************)
\* the stream the last call of Close was about
ClosedId == stream(slast.before, slast.arg).id

Registered(reg) == {reg[x] : x \in DOMAIN reg}

\* the position of the first option of the last Open that gives an alias
\* the registry held, 0 when there is none
TakenAlias ==
    LET taken(i) == LET o == slast.options[i]
                    IN  /\ o.k = "cmp" /\ o.name = "alias" /\ Len(o.args) = 1
                        /\ o.args[1] \in DOMAIN slast.before
        S == {i \in DOMAIN slast.options : taken(i)}
    IN  IF S = {} THEN 0 ELSE CHOOSE i \in S : \A j \in S : i <= j

\* an Open whose source, mode and stream are what Open accepts and whose
\* options before the i-th are
AcceptedUpTo(i) ==
    /\ slast.arg.sourceSink.k = "atom"
    /\ slast.arg.mode \in {Atom("read"), Atom("write"), Atom("append")}
    /\ slast.arg.stream.k = "var"
    /\ openOptions(slast.before, ZeroStream, SubSeq(slast.options, 1, i - 1), 1).err
          = NoOptionErr

\* C24: a Close that succeeds takes its stream out of the registry: a lookup
\* of the alias the stream had gives existence_error(stream) and an Open may
\* be given the alias again; an Open with an alias the registry holds
\* registers nothing and ends in an error, the permission error when nothing
\* before the alias is refused
C24_CloseFreesAliasOpenRefusesTaken ==
    /\ (slast.op = "close" /\ slast.p.t = "delay") =>
          /\ ClosedId \notin Registered(streams)
          /\ LET a == Atom(sheap[ClosedId].alias)
                 again == Open(streams, sheap, Atom("f"), Atom("read"), Var(1),
                               <<AliasOption(a)>>, "ok")
             IN  a.name # "" =>
                    /\ stream(streams, a).err = ExistenceError("stream", a)
                    /\ again.p.t = "delay"
                    /\ a \in DOMAIN again.reg
                    /\ again.reg[a] = Len(sheap) + 1
    /\ (slast.op = "open" /\ TakenAlias # 0) =>
          /\ slast.p.t = "error"
          /\ streams = slast.before
          /\ AcceptedUpTo(TakenAlias) =>
                slast.p = Error(PermissionError("open", "source_sink",
                                                slast.options[TakenAlias]))

\* the alias of a stream that was closed is held by a stream opened afterwards
C24_Witness ==
    /\ slast.op = "open" /\ slast.p.t = "delay"
    /\ Len(sheap) = 2
    /\ sheap[1].alias = "a" /\ sheap[1].closed
    /\ sheap[2].alias = "a"
    /\ streams = (Atom("a") :> 2)

\* an Open with the alias of a registered stream was refused
OpenRefused ==
    /\ slast.op = "open" /\ TakenAlias # 0 /\ AcceptedUpTo(TakenAlias)
    /\ slast.p.t = "error"

\* the solutions of the last StreamProperty that are about the type of a
\* stream: the values given to the argument of type(_)
TypesReported ==
    LET p == slast.options[1]
        shown(env) == Resolve(p, env)
    IN  {shown(slast.solutions[i]).args[1] : i \in
            {j \in DOMAIN slast.solutions :
                shown(slast.solutions[j]).k = "cmp" /\ shown(slast.solutions[j]).name = "type"}}

\* the streams the last StreamProperty was about
StreamsAsked ==
    LET s == slast.arg
    IN  CASE s.k = "var" -> Registered(streams)
          [] s.k = "atom" /\ s \in DOMAIN streams -> {streams[s]}
          [] s.k = "stream" -> {s.id}
          [] OTHER -> {}

\* C25: StreamProperty, asked for the properties of open streams, reports
\* for each of them its type with the atom of the type: type(binary) for a
\* stream opened with type(binary), type(text) for a text stream
C25_TypeReportedWithItsAtom ==
    (/\ slast.op = "stream_property"
     /\ StreamsAsked # {}
     /\ \A id \in StreamsAsked : ~sheap[id].closed) =>
        /\ slast.p.t = "delay"
        /\ TypesReported = {Atom(sheap[id].streamType) : id \in StreamsAsked}

\* the type of a text stream is reported with the atom text
TextReportedAsText ==
    (/\ slast.op = "stream_property"
     /\ slast.options[1].k = "var"
     /\ StreamsAsked # {}
     /\ \A id \in StreamsAsked : ~sheap[id].closed /\ sheap[id].streamType = "text") =>
        TypesReported = {Atom("text")}

\* the properties of a binary stream were asked for
BinaryAsked ==
    /\ slast.op = "stream_property" /\ slast.p.t = "delay"
    /\ slast.options[1].k = "var"
    /\ \E id \in StreamsAsked : sheap[id].streamType = "binary"

(***************************************************************************)
(* bagof and setof.                                                        *)
(***************************************************************************)
\* the ways to give each of n solutions one of m groups
Groupings(n, m) == [1..n -> 1..m]

\* the solutions a grouping gives group g, in the order they were found
RECURSIVE MembersOf(_, _, _)
MembersOf(grouping, g, i) ==
    IF i > Len(grouping) THEN <<>>
    ELSE (IF grouping[i] = g THEN <<i>> ELSE <<>>) \o MembersOf(grouping, g, i + 1)

\* grouping tells of each solution the one alternative it was placed in:
\* the bag of an alternative holds the template instances of its solutions
\* in the order they were found, and the alternatives are in the order of
\* their first solutions
PlacedBy(grouping) ==
    LET members(g) == MembersOf(grouping, g, 1)
    IN  /\ \A g \in DOMAIN blast.ks : members(g) # <<>>
        /\ \A g \in DOMAIN blast.ks :
              /\ blast.ks[g].bag = [j \in DOMAIN members(g) |-> blast.sols[members(g)[j]].t]
              /\ \A h \in DOMAIN blast.ks : g < h => members(g)[1] < members(h)[1]

\* C26: bagof and setof fail when the goal has no solution; otherwise every
\* solution is placed in exactly one group, the groups are the alternatives
\* in the order of their first solutions, and bagof unifies the instances
\* of an alternative with the list of the template instances of its group in
\* the order the solutions were found
C26_SolutionsGroupedInOrder ==
    (blast.set /\ blast.goal.k # "var") =>
        /\ Len(blast.sols) = 0 => blast.p = Bool(FALSE)
        /\ Len(blast.sols) > 0 =>
              /\ blast.p.t = "delay"
              /\ Len(blast.ks) \in 1..Len(blast.sols)
              /\ \E grouping \in Groupings(Len(blast.sols), Len(blast.ks)) :
                    PlacedBy(grouping)
              /\ blast.agg = "List" =>
                    \A g \in DOMAIN blast.ks :
                        blast.ks[g].instances = <<List(blast.ks[g].bag)>>

\* three solutions went to two groups, and the one found last to the group
\* offered first
C26_Witness ==
    /\ blast.set /\ blast.agg = "List"
    /\ Len(blast.sols) = 3 /\ Len(blast.ks) = 2
    /\ Len(blast.ks[1].bag) = 2
    /\ blast.sols[1].w = blast.sols[3].w /\ blast.sols[1].w # blast.sols[2].w
    /\ blast.sols[1].t # blast.sols[3].t

(***************************************************************************)
(* Arg.                                                                    *)
(***************************************************************************)
\* Arg was called with a compound term and an integer
ArgOfCompound == alast.set /\ alast.term.k = "cmp" /\ alast.nth.k = "int"

\* C27: for a compound term of arity n and nth an integer N, Arg unifies arg
\* with the N-th argument of term when 1 <= N <= n, fails when N = 0 or
\* N > n, and returns a domain error when N < 0
C27_ArgExtractsNth ==
    ArgOfCompound =>
        LET N == alast.nth.id
            n == Len(alast.term.args)
            u == Unify(alast.arg, alast.term.args[N], EmptyEnv)
        IN  /\ N \in 1..n =>
                  /\ alast.p.t = "delay"
                  /\ alast.solutions = IF u.p = "delay" THEN <<u.env>> ELSE <<>>
            /\ (N = 0 \/ N > n) => alast.p = Bool(FALSE)
            /\ N < 0 => /\ alast.p.t = "error"
                        /\ alast.p.e.args[1].name = "domain_error"

\* the cases of the claim other than N = n are as it says
ArgExtractsBeforeLast ==
    (ArgOfCompound /\ alast.nth.id # Len(alast.term.args)) => C27_ArgExtractsNth

\* Arg was asked for the last argument of a term
LastArgAsked ==
    /\ ArgOfCompound /\ alast.nth.id = Len(alast.term.args)
    /\ alast.p = Bool(FALSE)

(***************************************************************************)
(* The clause compiler of engine/clause.go.                                *)
(***************************************************************************)
\* a rule was compiled without an error
RuleCompiled ==
    /\ klast.set /\ klast.op = "compile" /\ klast.err = NoErr
    /\ klast.t.k = "cmp" /\ klast.t.name = atomIf /\ Len(klast.t.args) = 2

\* a term that is no rule was compiled
FactCompiled ==
    /\ klast.set /\ klast.op = "compile"
    /\ ~(klast.t.k = "cmp" /\ klast.t.name = atomIf /\ Len(klast.t.args) = 2)

\* B1, ..., Bn of a body B1 ; ... ; Bn, where (C -> T ; E) is one of them
RECURSIVE AlternativesOf(_)
AlternativesOf(b) ==
    LET isOr(x) == x.k = "cmp" /\ x.name = ";" /\ Len(x.args) = 2
        isThen(x) == x.k = "cmp" /\ x.name = "->" /\ Len(x.args) = 2
    IN  IF isOr(b) /\ ~isThen(b.args[1]) THEN <<b.args[1]>> \o AlternativesOf(b.args[2])
        ELSE <<b>>

\* the procedure indicator of a head
IndicatorOf(h) == procedureIndicator(h.name, Len(h.args))

\* C28: compile gives for a rule H :- (B1 ; ... ; Bn) n clauses, the i-th
\* the one of H :- Bi, each with the procedure indicator of H and the whole
\* rule as its raw term; (C -> T ; E) is one alternative and gives one
\* clause; a fact gives one clause
C28_OneClausePerAlternative ==
    /\ RuleCompiled =>
          LET H == klast.t.args[1]
              Bs == AlternativesOf(klast.t.args[2])
          IN  /\ Len(klast.cs) = Len(Bs)
              /\ \A i \in DOMAIN klast.cs :
                    /\ klast.cs[i].pi = IndicatorOf(H)
                    /\ klast.cs[i].raw = klast.t
                    /\ klast.cs[i].bytecode = engineCompileClause(H, Bs[i], TRUE).c.bytecode
              /\ (klast.t.args[2].k = "cmp" /\ klast.t.args[2].name = ";"
                  /\ klast.t.args[2].args[1].k = "cmp"
                  /\ klast.t.args[2].args[1].name = "->") => Len(klast.cs) = 1
    /\ FactCompiled => /\ Len(klast.cs) = 1
                       /\ klast.err = NoErr

\* a rule of three alternatives gave three clauses
C28_Witness ==
    /\ RuleCompiled
    /\ Len(klast.cs) = 3
    /\ klast.cs[1].bytecode # klast.cs[3].bytecode

\* an if-then-else gave one clause
IfThenElseCompiled ==
    /\ RuleCompiled
    /\ klast.t.args[2].name = ";"
    /\ klast.t.args[2].args[1].name = "->"
    /\ Len(klast.cs) = 1

Opcodes(c) == [i \in DOMAIN c.bytecode |-> c.bytecode[i].opcode]
CountOf(ops, o) == Cardinality({i \in DOMAIN ops : ops[i] = o})

\* C29: the bytecode of every clause the compiler gives ends in opExit and
\* holds no other opExit, holds one opEnter when the clause has a body and
\* none when it is a fact; and the VM, run on bytecode that ends without
\* opExit, returns a system error where the whole bytecode succeeds
C29_ExitLastEnterOnce ==
    /\ (klast.set /\ klast.op = "compile") =>
          \A i \in DOMAIN klast.cs :
              LET ops == Opcodes(klast.cs[i])
              IN  /\ ops # <<>>
                  /\ ops[Len(ops)] = "opExit"
                  /\ CountOf(ops, "opExit") = 1
                  /\ CountOf(ops, "opEnter") = IF RuleCompiled THEN 1 ELSE 0
    /\ (klast.set /\ klast.op = "run") =>
          /\ klast.ran # Bool(TRUE)
          /\ klast.whole = Bool(TRUE) =>
                klast.ran = Error(SystemError("non-exit end of bytecode"))

\* a rule of two alternatives was compiled; each clause has its opEnter and
\* its opExit
C29_Witness ==
    /\ RuleCompiled
    /\ Len(klast.cs) = 2
    /\ \A i \in DOMAIN klast.cs : Len(klast.cs[i].bytecode) > 3

\* a fact that succeeds was run without its opExit
RanOut ==
    /\ klast.set /\ klast.op = "run"
    /\ klast.whole = Bool(TRUE)
    /\ klast.ran.t = "error"

GetFamily == {"opGetVar", "opGetConst", "opGetList", "opGetPartial", "opGetFunctor", "opPop"}
PutFamily == {"opPutVar", "opPutConst", "opPutList", "opPutPartial", "opPutFunctor", "opPop"}

\* the position of the first opEnter, that of the last instruction when
\* there is none
EnterOf(ops) ==
    LET S == {i \in DOMAIN ops : ops[i] = "opEnter"}
    IN  IF S = {} THEN Len(ops) ELSE CHOOSE i \in S : \A j \in S : i <= j

\* C30: in the bytecode of a compiled clause the instructions of the head,
\* those before opEnter (before opExit in a fact), are of the get family,
\* and those of the body, between opEnter and opExit, are of the put family
\* or opCall or opCut
C30_GetBeforeEnterPutAfter ==
    (klast.set /\ klast.op = "compile") =>
        \A c \in DOMAIN klast.cs :
            LET ops == Opcodes(klast.cs[c])
                e == EnterOf(ops)
            IN  /\ \A i \in 1..(e - 1) : ops[i] \in GetFamily
                /\ \A i \in (e + 1)..(Len(ops) - 1) :
                      ops[i] \in PutFamily \cup {"opCall", "opCut"}

\* a clause was compiled whose head has a list and whose body has a list
\* and a partial list
C30_Witness ==
    /\ RuleCompiled
    /\ \E c \in DOMAIN klast.cs :
          LET ops == Opcodes(klast.cs[c])
          IN  /\ \E i \in DOMAIN ops : ops[i] = "opGetList"
              /\ \E i \in DOMAIN ops : ops[i] = "opPutList"
              /\ \E i \in DOMAIN ops : ops[i] = "opPutPartial"
              /\ \E i \in DOMAIN ops : ops[i] = "opCut"

(***************************************************************************)
(* The operands.                                                           *)
(***************************************************************************)
\* the clause of the fact with many operands that was compiled
WideClause == klast.cs[1]

WideCompiled == klast.set /\ klast.op \in WideKinds

NoTwoEqual(xs) == \A i, j \in DOMAIN xs : xs[i] = xs[j] => i = j

\* the entry the i-th instruction of the clause addresses is the argument it
\* was compiled from
AddressesArgument(i) ==
    LET a == klast.t.args[i]
        o == WideClause.bytecode[i].operand
    IN  IF a.k = "var"
        THEN o < Len(WideClause.vars) /\ WideClause.vars[o + 1] = a
        ELSE o < Len(WideClause.xrTable) /\ WideClause.xrTable[o + 1] = a

\* C31: the operand of every instruction is the index of the entry of the xr
\* table, or of the variable slot, of the term it was compiled from; the
\* tables hold no entry twice, an argument met again gets the index of its
\* entry and adds none; so for any number of distinct constants or
\* variables, more than 256 among them
C31_OperandIsIndexOfEntry ==
    WideCompiled =>
        /\ NoTwoEqual(WideClause.xrTable)
        /\ NoTwoEqual(WideClause.vars)
        /\ Len(WideClause.xrTable) + Len(WideClause.vars)
               = Cardinality({klast.t.args[i] : i \in DOMAIN klast.t.args})
        /\ \A i \in DOMAIN klast.t.args : AddressesArgument(i)

\* with tables of up to 256 entries the operands are the indices
OperandIsIndexWithinByte ==
    (/\ WideCompiled
     /\ Len(WideClause.xrTable) <= 2 ^ ByteBits
     /\ Len(WideClause.vars) <= 2 ^ ByteBits) => C31_OperandIsIndexOfEntry

\* a clause with more constants than a byte tells apart was compiled
BeyondByte == WideCompiled /\ Len(WideClause.xrTable) > 2 ^ ByteBits

(***************************************************************************)
(* The body goals of a clause.                                             *)
(***************************************************************************)
\* the thunks waiting in fs: those of every promise of every stack, and
\* those under a promise a cut hands back
ThunksOf(fs) ==
    LET direct == UNION {UNION {{fs[d].stack[n].delayed[i] :
                                    i \in DOMAIN fs[d].stack[n].delayed} :
                                n \in DOMAIN fs[d].stack} : d \in DOMAIN fs}
        handed(th) ==
            IF th.t = "ret" /\ th.p.t = "delay" THEN {th.p.ks[i] : i \in DOMAIN th.p.ks}
            ELSE {}
    IN  direct \cup UNION {handed(th) : th \in direct}

\* what a clause goes on with: the registers execCall and execCut keep
Kept(r, started) ==
    [pc |-> r.pc, xr |-> r.xr, vars |-> r.vars, exit |-> r.exit, fail |-> r.fail,
     cutParent |-> r.cutParent, started |-> started]

\* the registers the continuation k goes on with, and those their exit
\* continuations go on with
RECURSIVE RegistersOf(_)
RegistersOf(k) ==
    IF k.t = "resume" THEN {Kept(k.r, TRUE)} \cup RegistersOf(k.r.exit) ELSE {}

\* the registers a step of Force can take up: of the clauses not yet
\* started, of the continuations waiting in thunks and in the loops of
\* Retract and Catch
Pending(fs) ==
    LET of(th) ==
            CASE th.t = "clause" ->
                    {[pc |-> th.c.bytecode, xr |-> th.c.xrTable, vars |-> th.c.vars,
                      exit |-> th.k, fail |-> Failure, cutParent |-> th.cutParent,
                      started |-> FALSE]} \cup RegistersOf(th.k)
              [] th.t = "exec" -> {Kept(th.r, TRUE)} \cup RegistersOf(th.r.exit)
              [] "k" \in DOMAIN th -> RegistersOf(th.k)
              [] OTHER -> {}
        waiting(f) ==
            CASE "lp" \in DOMAIN f -> RegistersOf(f.lp.k)
              [] "ca" \in DOMAIN f -> RegistersOf(f.ca.k)
              [] OTHER -> {}
    IN  UNION {of(th) : th \in ThunksOf(fs)} \cup UNION {waiting(fs[d]) : d \in DOMAIN fs}

\* the goals execCall has dispatched that wait in fs
Dispatches(fs) == {th \in ThunksOf(fs) : th.t = "arrive" /\ th.k.t = "resume"}

\* the number of elements of the list t
RECURSIVE ListLen(_)
ListLen(t) == IF t.k = "cmp" /\ t.name = "." /\ Len(t.args) = 2 THEN 1 + ListLen(t.args[2]) ELSE 0

\* th is the goal of the first opCall left in s, and goes on behind it
DispatchedFrom(th, s) ==
    \E j \in DOMAIN s.pc :
        /\ s.pc[j].opcode = "opCall"
        /\ \A i \in 1..(j - 1) : s.pc[i].opcode # "opCall"
        /\ KeyOf(s.xr[s.pc[j].operand + 1]) = th.pi
        /\ th.k.r.pc = SubSeq(s.pc, j + 1, Len(s.pc))
        /\ th.k.r.xr = s.xr
        /\ th.k.r.exit = s.exit
        /\ th.k.r.fail = s.fail
        /\ th.k.r.cutParent = s.cutParent
        /\ IF s.started THEN th.k.r.vars = s.vars ELSE Len(th.k.r.vars) = Len(s.vars)

\* the arguments of th are in a list of its own, as many as the arity
ArgsOfItsOwn(th, before) ==
    /\ th.args.k = "var"
    /\ \A o \in before : o.args # th.args
    /\ ListLen(Unfold(th.args, th.env, MaxDepth)) = th.pi[2]

\* C32: the body goals of a clause are dispatched from left to right: a goal
\* is dispatched by a step that takes up the clause where it stood, before
\* its first opCall or behind the opCall of the goal before, and it is the
\* goal of the first opCall left; when it has succeeded the clause goes on
\* behind that opCall with the same xr table, variables, exit continuation
\* and cut barrier, and its arguments are in a new list
C32_BodyGoalsLeftToRight ==
    [][\A th \in Dispatches(frames') \ Dispatches(frames) :
          /\ \E s \in Pending(frames) : DispatchedFrom(th, s)
          /\ ArgsOfItsOwn(th, Dispatches(frames))]_vars

\* the second goal of a clause is dispatched: the clause it goes on in
\* stands at its opExit
C32_Witness ==
    \E th \in Dispatches(frames) :
        /\ th.k.r.pc = <<instruction("opExit", 0)>>
        /\ <<"c", 2>> \in DOMAIN vm.procedures
        /\ \E i \in DOMAIN vm.procedures[<<"c", 2>>].cs :
              th.k.r.xr = vm.procedures[<<"c", 2>>].cs[i].xrTable
        /\ th.pi = <<"b", 1>>

(***************************************************************************)
(* A head that does not match.                                             *)
(***************************************************************************)
\* the arguments of the head of the clause c
HeadArgs(c) ==
    LET head == Rulify(c.raw).args[1]
    IN  IF head.k = "cmp" THEN head.args ELSE <<>>

\* Force is about to start the clause of the thunk on top
ClauseOnTop ==
    /\ phase = "run"
    /\ Top.delayed # <<>>
    /\ Top.delayed[1].t = "clause"
    /\ Top.delayed[1].c.raw # Nil

\* the arguments the clause on top is called with do not unify with its head
HeadMismatch ==
    /\ ClauseOnTop
    /\ ~TermUnify(Top.delayed[1].args, List(HeadArgs(Top.delayed[1].c)), FALSE,
                  Top.delayed[1].env).ok

\* the stack of the innermost Force after the step
StackAfter == frames'[Len(frames)].stack

RaisedBehindCatch ==
    /\ qgoal.k = "cmp"
    /\ qgoal.name = "v"
    /\ vm.lastCatch.set
    /\ vm.lastCatch.err # NoErr

\* C34: Catch intercepts the exceptions raised while Goal is executed and no
\* other: an exception raised by the continuation, after Goal has succeeded,
\* is handed on as it is and Recovery is not called
C34_CatchOnlyDuringGoal ==
    RaisedBehindCatch => vm.lastCatch.p = Error(vm.lastCatch.err)

\* Catch calls Recovery for the exception the continuation raised
RecoveryForContinuation ==
    /\ RaisedBehindCatch
    /\ vm.lastCatch.p.t = "delay"
    /\ vm.lastCatch.p.ks[1].t = "call"
    /\ vm.lastCatch.p.ks[1].goal = vm.lastCatch.ca.recover

(***************************************************************************)
(* Abolish of a procedure that is not there.                               *)
(***************************************************************************)
\* the last operation was an Abolish of a well-formed Name/Arity
AbolishOfIndicator ==
    /\ dlast.op = "abolish"
    /\ dlast.arg.k = "cmp"
    /\ dlast.arg.name = "/"
    /\ Len(dlast.arg.args) = 2
    /\ dlast.arg.args[1].k = "atom"
    /\ dlast.arg.args[2].k = "int"
    /\ dlast.arg.args[2].id >= 0

\* the permission error Abolish returns for the indicator it was given
AbolishRefused ==
    dlast.p = Error(permissionErrorModifyStaticProcedure(dlast.arg))

\* the indicator the last Abolish was given has no entry in the table
AbolishOfMissing ==
    /\ AbolishOfIndicator
    /\ TargetKey(dlast.op, dlast.arg) \notin DOMAIN dlast.before

\* C35: Abolish returns the permission error for modifying a static
\* procedure only when the procedure exists and is no clause list; for a
\* well-formed Name/Arity without entry in the table it returns no
\* permission error and leaves the table as it was
C35_AbolishOfMissingIsNoPermissionError ==
    /\ (AbolishOfIndicator /\ AbolishRefused) => OnStatic
    /\ AbolishOfMissing => (~AbolishRefused /\ dprocs = dlast.before)

\* Abolish of a procedure without entry leaves the table as it was
AbolishOfMissingKeepsTable == AbolishOfMissing => dprocs = dlast.before

\* Abolish of a procedure without entry returns the permission error
AbolishOfMissingRefused == AbolishOfMissing /\ AbolishRefused

(***************************************************************************)
(* The clauses a call tries.                                               *)
(***************************************************************************)
\* the promises of fs that hold the thunks of the clauses of a call
ClauseCalls(fs) ==
    {q \in UNION {{fs[d].stack[n] : n \in DOMAIN fs[d].stack} : d \in DOMAIN fs} :
        q.delayed # <<>> /\ q.delayed[1].t = "clause"}

\* the clauses the thunks of q stand for, in their order
ClausesLeft(q) == [i \in DOMAIN q.delayed |-> q.delayed[i].c]

\* q is a call made by the step: its thunks are the clauses of the clause
\* list as it is in procedures, one each and in its order
CallOf(q, procedures) ==
    /\ KeyOf(q.delayed[1].c.pi) \in DOMAIN procedures
    /\ ClausesLeft(q) = procedures[KeyOf(q.delayed[1].c.pi)].cs
    /\ \A i \in DOMAIN q.delayed : q.delayed[i].i = i

\* q is a call made before the step, with the clauses it had left or those
\* but the first, which the step has started
CallGoingOn(q, before) ==
    \E o \in before :
        /\ o.id = q.id
        /\ q.delayed = o.delayed \/ q.delayed = Tail(o.delayed)

\* a clause a call has yet to try is not in the clause list any more, or the
\* clause list has grown behind the call
TableChangedUnder(q) ==
    \/ KeyOf(q.delayed[1].c.pi) \notin DOMAIN vm.procedures
    \/ \E i \in DOMAIN q.delayed :
          \A n \in DOMAIN vm.procedures[KeyOf(q.delayed[1].c.pi)].cs :
              vm.procedures[KeyOf(q.delayed[1].c.pi)].cs[n] # q.delayed[i].c
    \/ Len(vm.procedures[KeyOf(q.delayed[1].c.pi)].cs) > q.delayed[Len(q.delayed)].i

\* C36: a call of a user-defined predicate tries the clauses of the clause
\* list as it was when the call was made: its thunks are made from that list,
\* and no step, whatever it asserts or retracts, adds a clause to those it
\* has left or takes one away other than by starting it
C36_CallTriesClausesOfCallTime ==
    [][\A q \in ClauseCalls(frames') :
          \/ CallGoingOn(q, ClauseCalls(frames))
          \/ /\ \A o \in ClauseCalls(frames) : o.id # q.id
             /\ CallOf(q, vm.procedures)]_vars

\* a call of p/1 has clauses left while p(3) has been retracted, or while
\* clauses have been added to p/1
C36_Witness ==
    \E q \in ClauseCalls(frames) :
        /\ q.delayed[1].c.pi = procedureIndicator("p", 1)
        /\ TableChangedUnder(q)
        /\ qgoal.name \in {"t", "u"}

(***************************************************************************)
(* The operator table after any calls of Op.                               *)
(***************************************************************************)
\* the table is in the order of the priorities
OrderedByPriority(ops) ==
    \A i, j \in DOMAIN ops : i < j => ops[i].priority <= ops[j].priority

\* no two entries of the table have the same specifier and name
OneEntryPerOperator(ops) ==
    \A i, j \in DOMAIN ops :
        (ops[i].specifier = ops[j].specifier /\ ops[i].name = ops[j].name) => i = j

\* the last call of Op returned an error
OpFailed == olast.set /\ olast.p.t = "error"

\* C37: after any sequence of calls of Op the operator table is ordered by
\* non-decreasing priority and holds at most one entry for each pair of
\* specifier and name, and a call that returns an error leaves the table as
\* it was
C37_TableOrderedOneEntryEach ==
    /\ OrderedByPriority(operators)
    /\ OneEntryPerOperator(operators)
    /\ OpFailed => operators = olast.before

\* a call replaced an entry by one before an entry of a higher priority
C37_Witness ==
    /\ olast.set
    /\ olast.p.t # "error"
    /\ Len(operators) >= 2
    /\ operators[1].priority < operators[Len(operators)].priority
    /\ operators[1].name = olast.operator.name
    /\ operators[1].specifier = olast.specifier.name
    /\ Len(olast.before) = Len(operators)

\* a call that returned an error found two entries in the table
OpFailedOnTable == OpFailed /\ Len(olast.before) >= 2

(***************************************************************************)
(* The current streams and the registry.                                   *)
(***************************************************************************)
\* the stream at id of sheap is in the registry
Present(id) == \E key \in DOMAIN streams : streams[key] = id

\* C38: in every state of the engine the current input stream and the
\* current output stream are streams of the registry: no sequence of Open,
\* SetInput, SetOutput and Close leaves a closed stream as the current input
\* or the current output
C38_CurrentStreamsRegistered ==
    /\ input # 0 => Present(input)
    /\ output # 0 => Present(output)

\* the current input is a stream that Close has closed and taken out of the
\* registry
CurrentInputClosed == input # 0 /\ sheap[input].closed /\ ~Present(input)

(***************************************************************************)
(* GetByte of an integer that is no byte.                                  *)
(***************************************************************************)
\* the last call got as far as looking at inByte: the stream is there, has
\* a source that is a bufio.Reader and is binary
InByteLookedAt ==
    /\ glast.set
    /\ glast.arg = Stream(1)
    /\ HasSource(glast.s)
    /\ glast.s.streamType = "binary"
    /\ glast.buffered

\* inByte is an integer outside 0..255
NoByte == glast.inByte.k = "int" /\ (glast.inByte.id < 0 \/ glast.inByte.id > 255)

\* C39: GetByte with inByte bound to an integer outside 0..255 returns the
\* type error in_byte and takes nothing from the stream, which is what
\* PeekByte does for that argument; a byte is read only when inByte is a
\* variable or an integer of 0..255
C39_GetByteRefusesNoByte ==
    (InByteLookedAt /\ glast.op = "get_byte") =>
        /\ NoByte => /\ glast.r.p = Error(typeErrorInByte(glast.inByte))
                     /\ glast.r.read = 0
                     /\ glast.r.p = glast.peek.p
        /\ glast.r.read > 0 =>
              \/ glast.inByte.k = "var"
              \/ glast.inByte.k = "int" /\ glast.inByte.id \in 0..255

\* PeekByte returns the type error for every inByte that is no byte and no
\* variable, and GetByte for every inByte that is no integer and no variable;
\* neither takes a byte then
ByteTypeErrors ==
    InByteLookedAt =>
        /\ (glast.op = "peek_byte" /\ (NoByte \/ glast.inByte.k \notin {"var", "int"})) =>
              glast.r.p = Error(typeErrorInByte(glast.inByte)) /\ glast.r.read = 0
        /\ (glast.op = "get_byte" /\ glast.inByte.k \notin {"var", "int"}) =>
              glast.r.p = Error(typeErrorInByte(glast.inByte)) /\ glast.r.read = 0

\* GetByte took a byte from the stream for an inByte that is no byte
ByteTakenForNoByte ==
    /\ InByteLookedAt
    /\ glast.op = "get_byte"
    /\ NoByte
    /\ glast.r.read = 1
    /\ glast.r.p.t = "delay"
    /\ ~glast.r.ok

(***************************************************************************)
(* The nesting of the instructions of a clause.                            *)
(***************************************************************************)
\* the instructions that open a structure, opFunctor the one of the VM
Opening ==
    {"opGetFunctor", "opGetList", "opGetPartial", "opPutFunctor", "opPutList",
     "opPutPartial", "opFunctor"}

\* the number of structures open behind the first n instructions of code
RECURSIVE NestingDepth(_, _)
NestingDepth(code, n) ==
    IF n = 0 THEN 0
    ELSE NestingDepth(code, n - 1)
         + (CASE code[n].opcode \in Opening -> 1
              [] code[n].opcode = "opPop" -> -1
              [] OTHER -> 0)

\* the instructions of code are properly nested
ProperlyNested(code) ==
    /\ \A n \in 0..Len(code) : NestingDepth(code, n) >= 0
    /\ NestingDepth(code, Len(code)) = 0
    /\ Cardinality({n \in DOMAIN code : code[n].opcode = "opPop"})
          = Cardinality({n \in DOMAIN code : code[n].opcode \in Opening})
    /\ \A n \in DOMAIN code :
          code[n].opcode \in {"opEnter", "opCall", "opExit", "opCut"} =>
              NestingDepth(code, n - 1) = 0

\* the VM got past opEnter and to the first goal of the rule
PastEnter ==
    /\ klast.whole.t = "delay"
    /\ Len(klast.whole.ks) = 1
    /\ klast.whole.ks[1].t = "arrive"
    /\ klast.whole.ks[1].pi = <<"g", 0>>

\* the call has the structures of the head or variables in their places
CallMatchesHead == klast.args # OtherStructures(klast.t)

\* C40: in every clause the compiler produces the instructions that open a
\* structure (functor, list and partial, get and put) and opPop are properly
\* nested, one opPop for each opening instruction, and no structure is open
\* at opEnter, at an opCall and at opExit; so the astack of the VM is empty
\* when opEnter is executed after a head that matched, and the VM gets past it
C40_OpeningsAndPopsNested ==
    /\ (klast.set /\ klast.op = "compile" /\ klast.err = NoErr) =>
          \A i \in DOMAIN klast.cs : ProperlyNested(klast.cs[i].bytecode)
    /\ (klast.set /\ klast.op = "enter") =>
          /\ ProperlyNested(klast.cs[1].bytecode)
          /\ CallMatchesHead <=> PastEnter

\* a rule was compiled whose head has a structure inside a structure, and
\* whose body opens structures as well
C40_Witness ==
    /\ klast.set
    /\ klast.op = "compile"
    /\ klast.err = NoErr
    /\ \E i \in DOMAIN klast.cs :
          /\ \E n \in DOMAIN klast.cs[i].bytecode :
                NestingDepth(klast.cs[i].bytecode, n) = 2
          /\ \E n \in DOMAIN klast.cs[i].bytecode :
                klast.cs[i].bytecode[n].opcode \in {"opPutFunctor", "opPutList"}

=============================================================================
